---------------------------- MODULE Spec2Model ----------------------------
(***************************************************************************)
(* AID Commander v4.1: the multi-layer validation engine                   *)
(* (validation/multi_layer/validation_engine.py) and the hallucination     *)
(* detection engine (validation/hallucination/detection_engine.py).        *)
(*                                                                         *)
(* Numbers.  Python floats are modelled in fixed point.  A confidence is   *)
(* an integer number of thousandths (One = 1.0), a layer weight an integer *)
(* number of hundredths (WeightOne = 1.0), and a consensus score or a      *)
(* detection confidence an integer number of 1/100000 (ScoreOne = 1.0), so *)
(* that confidence * weight needs no rounding.                             *)
(*                                                                         *)
(* Code.  A code string is a sequence of statements; a statement is a      *)
(* record [k, a, b]:                                                       *)
(*   k = "import"   from <a> import <b>                                    *)
(*   k = "ctor"     <a>(...)            a call whose func is a Name        *)
(*   k = "call"     <a>.<b>(...)        a call whose func is an Attribute  *)
(*   k = "classdef" class <a>                                              *)
(*   k = "def"      def f(...) with (b = "annotated") / without annotation *)
(*   k = "try"      a try/except block                                     *)
(*   k = "asyncdef" async def f(...)                                       *)
(*   k = "await"    an await expression                                    *)
(*   k = "garbage"  text that ast.parse rejects                            *)
(* The empty sequence is the empty string (or None).                       *)
(*                                                                         *)
(* Text.  A pattern string or a code template is a sequence of             *)
(* whitespace-separated words, and a word is the tuple of the identifiers  *)
(* that its punctuation separates: "agent.run_sync pattern" is             *)
(* << <<"agent", "run_sync">>, <<"pattern">> >>.                           *)
(***************************************************************************)
EXTENDS Integers, Sequences, FiniteSets, Bags, TLC

\* float 1.0 of a confidence, in thousandths
One == 1000
\* float 1.0 of a layer weight, in hundredths
WeightOne == 100
\* float 1.0 of a consensus score: One * WeightOne
ScoreOne == One * WeightOne

Min(a, b) == IF a <= b THEN a ELSE b
Max(a, b) == IF a >= b THEN a ELSE b

RECURSIVE SetSum(_, _)
\* the sum of f[x] over x in S
SetSum(f, S) ==
    IF S = {} THEN 0
    ELSE LET x == CHOOSE y \in S : TRUE IN f[x] + SetSum(f, S \ {x})

Range(s) == {s[i] : i \in 1..Len(s)}

RECURSIVE Concat(_)
\* the concatenation of a sequence of sequences
Concat(ss) == IF ss = <<>> THEN <<>> ELSE Head(ss) \o Concat(Tail(ss))

-----------------------------------------------------------------------------
(* Layers, severities *)

LAYER_STRUCTURAL == "structural"
LAYER_TEMPORAL == "temporal"
LAYER_DOCUMENTATION == "documentation"
LAYER_MEMORY == "memory"
LAYER_TYPE_SAFETY == "type_safety"
LAYER_CONSENSUS == "consensus"

\* the validators dict of MultiLayerValidationEngine.__init__, in insertion order
ValidationLayer == <<LAYER_STRUCTURAL, LAYER_TEMPORAL, LAYER_DOCUMENTATION, LAYER_MEMORY, LAYER_TYPE_SAFETY, LAYER_CONSENSUS>>
Layers == Range(ValidationLayer)
\* the layers validate_code_generation runs in parallel (all but LAYER_CONSENSUS)
ParallelLayers == Layers \ {LAYER_CONSENSUS}

ValidationSeverity == <<"critical", "high", "medium", "low", "info">>

ValidationIssue(layer, severity, issue_type) ==
    [layer |-> layer, severity |-> severity, issue_type |-> issue_type]

LayerValidationResult(layer, confidence, issues, validated_items, error) ==
    [layer |-> layer, confidence |-> confidence, issues |-> issues,
     validated_items |-> validated_items, error |-> error]

-----------------------------------------------------------------------------
(* Code and its analysis *)

Stmt(k, a, b) == [k |-> k, a |-> a, b |-> b]

\* str.lower() on the identifiers of the model
Lower(s) ==
    CASE s = "Agent" -> "agent"
      [] s = "PydanticAgent" -> "pydanticagent"
      [] s = "PydanticAI" -> "pydanticai"
      [] s = "Django" -> "django"
      [] OTHER -> s

\* ast.parse succeeds
Parses(code) == \A i \in 1..Len(code) : code[i].k # "garbage"

\* an absent CodeAnalysis (code_analysis = None)
NoAnalysis ==
    [present |-> FALSE, imports |-> <<>>, classes |-> <<>>, api_calls |-> <<>>,
     frameworks |-> <<>>, patterns |-> <<>>, ast_tree |-> <<>>, has_tree |-> FALSE]

\* the CodeAnalysis of the except branch: every field empty, no ast_tree
EmptyAnalysis == [NoAnalysis EXCEPT !.present = TRUE]

ApiCall(stmt) == [object |-> stmt.a, method |-> stmt.b]

\* the framework an import statement names (the if/elif chain over imports)
ImportFramework(module) ==
    CASE module = "pydantic_ai" -> <<"PydanticAI">>
      [] module = "fastapi" -> <<"FastAPI">>
      [] module = "django" -> <<"Django">>
      [] OTHER -> <<>>

\* MultiLayerValidationEngine._analyze_code_structure
analyze_code_structure(code) ==
    IF ~Parses(code) THEN EmptyAnalysis
    ELSE
      LET imports == SelectSeq(code, LAMBDA s : s.k = "import")
          calls == SelectSeq(code, LAMBDA s : s.k = "call")
          api_calls == [i \in 1..Len(calls) |-> ApiCall(calls[i])]
      IN [present |-> TRUE,
          imports |-> imports,
          classes |-> [i \in 1..Len(SelectSeq(code, LAMBDA s : s.k = "classdef")) |->
                         SelectSeq(code, LAMBDA s : s.k = "classdef")[i].a],
          api_calls |-> api_calls,
          frameworks |-> Concat([i \in 1..Len(imports) |-> ImportFramework(imports[i].a)]),
          \* f"{object}.{method} pattern": two whitespace-separated words
          patterns |-> [i \in 1..Len(api_calls) |->
                          << <<api_calls[i].object, api_calls[i].method>>, <<"pattern">> >>],
          ast_tree |-> code,
          has_tree |-> TRUE]

-----------------------------------------------------------------------------
(* The collaborators: Knowledge Store, Hybrid Retrieval, Memory *)

\* a Method node of the knowledge graph, reached by
\* (Framework)-[:CONTAINS]->(Class)-[:HAS_METHOD]->(Method)
Method(framework, class, method, confidence) ==
    [framework |-> framework, class |-> class, method |-> method,
     confidence |-> confidence]

\* temporal_engine.Pattern
Pattern(name, framework, pattern_type, code_template, success_rate, usage_count, age_days) ==
    [name |-> name, framework |-> framework, pattern_type |-> pattern_type,
     code_template |-> code_template, success_rate |-> success_rate,
     usage_count |-> usage_count, age_days |-> age_days]

\* Cypher's `s CONTAINS sub` on the identifiers of the model
Contains(s, sub) ==
    \/ s = sub
    \/ <<s, sub>> \in {<<"run_sync", "run">>, <<"run_async", "run">>,
                       <<"PydanticAgent", "Agent">>}

RECURSIVE SortBySuccessRate(_)
\* ORDER BY p.success_rate DESC, p.usage_count DESC
SortBySuccessRate(ps) ==
    IF ps = <<>> THEN <<>>
    ELSE LET Better(p, q) == \/ p.success_rate > q.success_rate
                             \/ p.success_rate = q.success_rate /\ p.usage_count >= q.usage_count
             i == CHOOSE j \in 1..Len(ps) :
                      /\ \A k \in 1..Len(ps) : Better(ps[j], ps[k])
                      /\ \A k \in 1..(j - 1) : ~ (\A m \in 1..Len(ps) : Better(ps[k], ps[m]))
         IN <<ps[i]>> \o SortBySuccessRate(SubSeq(ps, 1, i - 1) \o SubSeq(ps, i + 1, Len(ps)))

\* AIDGraphitiEngine.query_successful_patterns (use_case = None)
query_successful_patterns(engine, framework, min_success_rate, time_window_days) ==
    SubSeq(SortBySuccessRate(SelectSeq(engine.patterns, LAMBDA p :
               /\ p.framework = framework
               /\ p.success_rate >= min_success_rate
               /\ p.age_days <= time_window_days)), 1,
           Min(10, Len(SelectSeq(engine.patterns, LAMBDA p :
               /\ p.framework = framework
               /\ p.success_rate >= min_success_rate
               /\ p.age_days <= time_window_days))))

\* AIDGraphitiEngine.query_failed_patterns (code_pattern = None)
query_failed_patterns(engine, framework, time_window_days) ==
    LET found == SelectSeq(engine.patterns, LAMBDA p :
               /\ p.framework = framework
               /\ p.pattern_type = "failure"
               /\ p.age_days <= time_window_days)
    IN SubSeq(found, 1, Min(5, Len(found)))

\* a variant of SetPatternUsage that counts only the successful uses
SetPatternUsage_successes_counted(p, success, in_order) ==
    LET counted == IF success THEN p.usage_count + 1 ELSE p.usage_count
        count == IF in_order THEN counted ELSE p.usage_count
        outcome == IF success THEN One ELSE 0
    IN [p EXCEPT !.usage_count = counted,
                 !.success_rate = (p.success_rate * count + outcome) \div (count + 1)]

\* the SET clause of the query of AIDGraphitiEngine.update_pattern_usage on the
\* pattern p it matched: p.usage_count = p.usage_count + 1 and then
\* p.success_rate = (p.success_rate * p.usage_count + outcome) / (p.usage_count + 1).
\* A store that applies the items of a SET clause in order reads the
\* usage_count that the first item has set; a store that evaluates the
\* expressions of the clause before it sets anything reads the one before
SetPatternUsage(p, success, in_order) ==
    LET count == IF in_order THEN p.usage_count + 1 ELSE p.usage_count
        outcome == IF success THEN One ELSE 0
    IN [p EXCEPT !.usage_count = @ + 1,
                 !.success_rate = (p.success_rate * count + outcome) \div (count + 1)]

\* the query of update_pattern_usage, as the store runs it: one statement of an
\* auto-commit transaction over the patterns MATCH (p:Pattern {id: $pattern_id})
\* finds
RunUpdatePatternUsage(engine, pattern_id, success) ==
    [engine EXCEPT !.patterns =
        [i \in 1..Len(@) |->
            IF @[i].name = pattern_id
            THEN SetPatternUsage(@[i], success, engine.set_items_in_order)
            ELSE @[i]]]


\* a variant of query_counted that also counts a use of every pattern
query_counted_as_usage(engine) ==
    [engine EXCEPT !.query_count = @ + 1,
                   !.patterns = [i \in 1..Len(@) |-> [@[i] EXCEPT !.usage_count = @ + 1]]]


\* what query_successful_patterns leaves in the engine: query_count += 1
\* (query_failed_patterns counts nothing)
query_counted(engine) == [engine EXCEPT !.query_count = @ + 1]

\* what n calls of hybrid_search leave in the system: search_count += 1 each;
\* validate_api_usage makes one such call
searches_counted(rag, n) == [rag EXCEPT !.search_count = @ + n]

\* HybridRAGSystem.hybrid_search: the confidence and the api_references of the
\* HybridSearchResult.  What the search finds for a query is the collaborator's
\* state: rag.search_confidence[q] for the query built from q, where q is the
\* code intent or "usage example"
hybrid_search(rag, query, framework) ==
    [confidence |-> rag.search_confidence[query], api_references |-> rag.api_references]

\* HybridRAGSystem.validate_api_usage
validate_api_usage(rag, engine, api_call, framework) ==
    LET search_result == hybrid_search(rag, "usage example", framework)
        \* api_call.split('.')[-1]
        name == api_call.method
        api_structure == {m \in engine.kg :
                            /\ m.framework = framework
                            /\ (Contains(m.method, name) \/ Contains(m.class, name))}
        is_valid == api_structure # {} \/ search_result.api_references
        confidence ==
            IF api_structure # {}
            THEN CHOOSE c \in {m.confidence : m \in api_structure} :
                     \A m \in api_structure : m.confidence <= c
            ELSE IF search_result.api_references
            THEN (search_result.confidence * 8) \div 10
            ELSE 0
        low == search_result.confidence < 700
    IN [is_valid |-> is_valid,
        confidence |-> IF low THEN (confidence * 8) \div 10 ELSE confidence,
        issues |-> (IF is_valid THEN <<>> ELSE <<"not found">>)
                   \o (IF low THEN <<"low confidence">> ELSE <<>>)]

\* MemoryBank.get_relevant_context: a decision or a warning is the set of the
\* lower-cased framework names its text mentions
get_relevant_context(memory, query) ==
    [relevant_decisions |-> memory.relevant_decisions,
     warnings |-> memory.warnings,
     confidence |-> memory.confidence[query]]

-----------------------------------------------------------------------------
(* The six validators *)

LowerWord(w) == [i \in 1..Len(w) |-> Lower(w[i])]
\* set(text.lower().split())
Words(text) == {LowerWord(text[i]) : i \in 1..Len(text)}

\* similarity > threshold, for similarity = intersection / union and
\* threshold = tenths / 10 (0.0 when either set is empty)
SimilarityExceeds(s1, s2, tenths) ==
    /\ s1 # {} /\ s2 # {}
    /\ 10 * Cardinality(s1 \cap s2) > tenths * Cardinality(s1 \cup s2)

\* StructuralValidator._validate_api_call: the "exists" entry of its answer; an
\* exception of the session is caught and answered {"exists": False}
validate_api_call(engine, api_call, framework) ==
    /\ engine.available
    /\ \E m \in engine.kg : /\ m.framework = framework
                            /\ m.class = api_call.object
                            /\ m.method = api_call.method

\* a variant of StructuralValidator whose confidence is 1.0 when every call
\* site resolved and 0.0 otherwise
StructuralValidator_all_or_nothing(engine, framework, code_analysis) ==
    LET calls == IF code_analysis.present THEN code_analysis.api_calls ELSE <<>>
        validated_items == SelectSeq(calls, LAMBDA c : validate_api_call(engine, c, framework))
        missing == SelectSeq(calls, LAMBDA c : ~validate_api_call(engine, c, framework))
        issues == [i \in 1..Len(missing) |->
                     ValidationIssue(LAYER_STRUCTURAL, "critical", "non_existent_api")]
        confidence == IF code_analysis.present /\ calls # <<>>
                      THEN (IF missing = <<>> THEN One ELSE 0)
                      ELSE 800
    IN LayerValidationResult(LAYER_STRUCTURAL, confidence, issues, validated_items, FALSE)


\* StructuralValidator.validate
StructuralValidator(engine, framework, code_analysis) ==
    LET calls == IF code_analysis.present THEN code_analysis.api_calls ELSE <<>>
        validated_items == SelectSeq(calls, LAMBDA c : validate_api_call(engine, c, framework))
        missing == SelectSeq(calls, LAMBDA c : ~validate_api_call(engine, c, framework))
        issues == [i \in 1..Len(missing) |->
                     ValidationIssue(LAYER_STRUCTURAL, "critical", "non_existent_api")]
        confidence == IF code_analysis.present /\ calls # <<>>
                      THEN (Len(validated_items) * One) \div Len(calls)
                      ELSE 800
    IN LayerValidationResult(LAYER_STRUCTURAL, confidence, issues, validated_items, FALSE)

\* TemporalValidator._pattern_similarity(pattern1, pattern2) > tenths / 10
pattern_similarity_exceeds(pattern1, pattern2, tenths) ==
    SimilarityExceeds(Words(pattern1), Words(pattern2), tenths)

\* a variant of TemporalValidator without the floor of 0.2
TemporalValidator_without_floor(engine, framework, code_analysis) ==
    LET successful_patterns == query_successful_patterns(engine, framework, 800, 180)
        failed_patterns == query_failed_patterns(engine, framework, 180)
        patterns == IF code_analysis.present THEN code_analysis.patterns ELSE <<>>
        FirstMatch(pattern) ==
            LET hits == SelectSeq(successful_patterns, LAMBDA sp :
                            pattern_similarity_exceeds(pattern, sp.code_template, 7))
            IN IF hits = <<>> THEN <<>> ELSE <<Head(hits).name>>
        Failures(pattern) ==
            LET hits == SelectSeq(failed_patterns, LAMBDA fp :
                            pattern_similarity_exceeds(pattern, fp.code_template, 8))
            IN [i \in 1..Len(hits) |->
                  ValidationIssue(LAYER_TEMPORAL, "high", "historically_failed_pattern")]
        validated_items == Concat([i \in 1..Len(patterns) |-> FirstMatch(patterns[i])])
        issues == Concat([i \in 1..Len(patterns) |-> Failures(patterns[i])])
        raised == IF successful_patterns # <<>>
                  THEN Min(950, 800 + Len(validated_items) * 100)
                  ELSE 800
        confidence == Max(0, raised - Len(issues) * 200)
    IN LayerValidationResult(LAYER_TEMPORAL, confidence, issues, validated_items, FALSE)


\* TemporalValidator.validate
TemporalValidator(engine, framework, code_analysis) ==
    LET successful_patterns == query_successful_patterns(engine, framework, 800, 180)
        failed_patterns == query_failed_patterns(engine, framework, 180)
        patterns == IF code_analysis.present THEN code_analysis.patterns ELSE <<>>
        \* the first successful pattern that matches (the inner loop breaks there)
        FirstMatch(pattern) ==
            LET hits == SelectSeq(successful_patterns, LAMBDA sp :
                            pattern_similarity_exceeds(pattern, sp.code_template, 7))
            IN IF hits = <<>> THEN <<>> ELSE <<Head(hits).name>>
        Failures(pattern) ==
            LET hits == SelectSeq(failed_patterns, LAMBDA fp :
                            pattern_similarity_exceeds(pattern, fp.code_template, 8))
            IN [i \in 1..Len(hits) |->
                  ValidationIssue(LAYER_TEMPORAL, "high", "historically_failed_pattern")]
        validated_items == Concat([i \in 1..Len(patterns) |-> FirstMatch(patterns[i])])
        issues == Concat([i \in 1..Len(patterns) |-> Failures(patterns[i])])
        raised == IF successful_patterns # <<>>
                  THEN Min(950, 800 + Len(validated_items) * 100)
                  ELSE 800
        confidence == IF issues # <<>>
                      THEN Max(200, raised - Len(issues) * 200)
                      ELSE raised
    IN LayerValidationResult(LAYER_TEMPORAL, confidence, issues, validated_items, FALSE)

\* a variant of DocumentationValidator that adds the validation rate to the search
\* confidence instead of averaging the two
DocumentationValidator_sum(rag, engine, code_intent, framework, code_analysis) ==
    LET search_result == hybrid_search(rag, code_intent, framework)
        calls == IF code_analysis.present THEN code_analysis.api_calls ELSE <<>>
        validated_items == SelectSeq(calls, LAMBDA c :
                               validate_api_usage(rag, engine, c, framework).is_valid)
        confidence == IF code_analysis.present /\ calls # <<>>
                      THEN search_result.confidence
                           + (Len(validated_items) * One) \div Len(calls)
                      ELSE search_result.confidence
    IN LayerValidationResult(LAYER_DOCUMENTATION, confidence, <<>>, validated_items, FALSE)

\* DocumentationValidator.validate
DocumentationValidator(rag, engine, code_intent, framework, code_analysis) ==
    LET search_result == hybrid_search(rag, code_intent, framework)
        calls == IF code_analysis.present THEN code_analysis.api_calls ELSE <<>>
        validated_items == SelectSeq(calls, LAMBDA c :
                               validate_api_usage(rag, engine, c, framework).is_valid)
        invalid == SelectSeq(calls, LAMBDA c :
                               ~validate_api_usage(rag, engine, c, framework).is_valid)
        issues == [i \in 1..Len(invalid) |->
                     ValidationIssue(LAYER_DOCUMENTATION, "medium", "undocumented_usage")]
        confidence == IF code_analysis.present /\ calls # <<>>
                      THEN (search_result.confidence
                            + (Len(validated_items) * One) \div Len(calls)) \div 2
                      ELSE search_result.confidence
    IN LayerValidationResult(LAYER_DOCUMENTATION, confidence, issues, validated_items, FALSE)

\* MemoryValidator.validate
MemoryValidator(memory, code_intent, framework) ==
    LET memory_context == get_relevant_context(memory, code_intent)
        fw == Lower(framework)
        validated_items == SelectSeq(memory_context.relevant_decisions, LAMBDA d : fw \in d)
        warned == SelectSeq(memory_context.warnings, LAMBDA w : fw \in w)
        issues == [i \in 1..Len(warned) |->
                     ValidationIssue(LAYER_MEMORY, "medium", "memory_warning")]
    IN LayerValidationResult(LAYER_MEMORY, memory_context.confidence, issues,
                             validated_items, FALSE)

\* TypeSafetyValidator._check_type_annotations
check_type_annotations(tree) ==
    \E i \in 1..Len(tree) : tree[i].k = "def" /\ tree[i].b = "annotated"
\* TypeSafetyValidator._check_error_handling
check_error_handling(tree) == \E i \in 1..Len(tree) : tree[i].k = "try"
\* TypeSafetyValidator._check_async_consistency
check_async_consistency(tree) ==
    \/ \A i \in 1..Len(tree) : tree[i].k # "asyncdef"
    \/ \E i \in 1..Len(tree) : tree[i].k = "await"

\* a variant of TypeSafetyValidator that runs its checks also when the analysis
\* has no ast_tree
TypeSafetyValidator_without_tree(code_analysis) ==
    LET tree == code_analysis.ast_tree
        validated_items == IF check_type_annotations(tree)
                           THEN <<"Type annotations present">> ELSE <<>>
        issues ==
            (IF ~check_error_handling(tree)
             THEN <<ValidationIssue(LAYER_TYPE_SAFETY, "low", "missing_error_handling")>>
             ELSE <<>>)
            \o (IF ~check_async_consistency(tree)
                THEN <<ValidationIssue(LAYER_TYPE_SAFETY, "medium", "async_inconsistency")>>
                ELSE <<>>)
        confidence == 800 + (IF validated_items # <<>> THEN 100 ELSE 0) - Len(issues) * 100
    IN LayerValidationResult(LAYER_TYPE_SAFETY, Max(0, Min(One, confidence)), issues,
                             validated_items, FALSE)

\* TypeSafetyValidator.validate
TypeSafetyValidator(code_analysis) ==
    LET checked == code_analysis.present /\ code_analysis.has_tree
        tree == code_analysis.ast_tree
        validated_items == IF checked /\ check_type_annotations(tree)
                           THEN <<"Type annotations present">> ELSE <<>>
        issues ==
            (IF checked /\ ~check_error_handling(tree)
             THEN <<ValidationIssue(LAYER_TYPE_SAFETY, "low", "missing_error_handling")>>
             ELSE <<>>)
            \o (IF checked /\ ~check_async_consistency(tree)
                THEN <<ValidationIssue(LAYER_TYPE_SAFETY, "medium", "async_inconsistency")>>
                ELSE <<>>)
        confidence == 800 + (IF validated_items # <<>> THEN 100 ELSE 0) - Len(issues) * 100
    IN LayerValidationResult(LAYER_TYPE_SAFETY, Max(0, Min(One, confidence)), issues,
                             validated_items, FALSE)

RECURSIVE LeastRoot(_, _, _, _)
\* the least r in lo..hi with (r * n)^2 >= d
LeastRoot(d, n, lo, hi) ==
    IF lo >= hi THEN hi
    ELSE LET mid == (lo + hi) \div 2
         IN IF (mid * n) * (mid * n) >= d
            THEN LeastRoot(d, n, lo, mid)
            ELSE LeastRoot(d, n, mid + 1, hi)

\* a variant of calculate_std_dev that gives the variance, without the root
calculate_std_dev_variance(f, S) ==
    IF S = {} THEN 0
    ELSE LET n == Cardinality(S)
             sum == SetSum(f, S)
             squares == SetSum([x \in S |-> f[x] * f[x]], S)
         IN (n * squares - sum * sum) \div (n * n * One)


\* ConsensusValidator._calculate_std_dev: the population standard deviation of the
\* values of f over S, rounded up to the next thousandth:
\* sqrt(n * sum(x^2) - sum(x)^2) / n
calculate_std_dev(f, S) ==
    IF S = {} THEN 0
    ELSE LET n == Cardinality(S)
             sum == SetSum(f, S)
             squares == SetSum([x \in S |-> f[x] * f[x]], S)
         IN LeastRoot(n * squares - sum * sum, n, 0, 4 * One)

\* the critical issues of a dict of layer results
CriticalIssues(layer_results) ==
    Concat([i \in 1..Len(ValidationLayer) |->
              IF ValidationLayer[i] \in DOMAIN layer_results
              THEN SelectSeq(layer_results[ValidationLayer[i]].issues,
                             LAMBDA issue : issue.severity = "critical")
              ELSE <<>>])

\* a variant of ConsensusValidator whose confidence is the mean of the
\* confidences it is given
ConsensusValidator_mean_confidence(layer_results) ==
    LET confidence_std == calculate_std_dev([l \in DOMAIN layer_results |->
                                                layer_results[l].confidence],
                                            DOMAIN layer_results)
        critical_issues == CriticalIssues(layer_results)
        issues ==
            (IF confidence_std > 300
             THEN <<ValidationIssue(LAYER_CONSENSUS, "medium", "layer_disagreement")>>
             ELSE <<>>)
            \o (IF critical_issues # <<>>
                THEN <<ValidationIssue(LAYER_CONSENSUS, "critical", "critical_consensus_failure")>>
                ELSE <<>>)
        consensus_confidence ==
            IF DOMAIN layer_results = {} THEN One
            ELSE SetSum([l \in DOMAIN layer_results |-> layer_results[l].confidence],
                        DOMAIN layer_results) \div Cardinality(DOMAIN layer_results)
    IN LayerValidationResult(LAYER_CONSENSUS, consensus_confidence, issues,
                             IF DOMAIN layer_results # {} THEN <<"Layer agreement">> ELSE <<>>,
                             FALSE)


\* ConsensusValidator.validate
ConsensusValidator(layer_results) ==
    LET confidence_std == calculate_std_dev([l \in DOMAIN layer_results |->
                                                layer_results[l].confidence],
                                            DOMAIN layer_results)
        critical_issues == CriticalIssues(layer_results)
        issues ==
            (IF confidence_std > 300
             THEN <<ValidationIssue(LAYER_CONSENSUS, "medium", "layer_disagreement")>>
             ELSE <<>>)
            \o (IF critical_issues # <<>>
                THEN <<ValidationIssue(LAYER_CONSENSUS, "critical", "critical_consensus_failure")>>
                ELSE <<>>)
        consensus_confidence == Max(0, One - confidence_std)
    IN LayerValidationResult(LAYER_CONSENSUS, consensus_confidence, issues,
                             IF DOMAIN layer_results # {} THEN <<"Layer agreement">> ELSE <<>>,
                             FALSE)

-----------------------------------------------------------------------------
(* The orchestrator: MultiLayerValidationEngine *)

\* MultiLayerValidationEngine.__init__: the default of confidence_threshold, 0.92
default_confidence_threshold == 92000

\* MultiLayerValidationEngine.confidence_threshold, which __init__ sets and
\* nothing changes
VARIABLE confidence_threshold

\* validator.validate(code_intent, framework, code_analysis) of a parallel layer
Validate(layer, engine, rag, memory, code_intent, framework, code_analysis) ==
    CASE layer = LAYER_STRUCTURAL -> StructuralValidator(engine, framework, code_analysis)
      [] layer = LAYER_TEMPORAL -> TemporalValidator(engine, framework, code_analysis)
      [] layer = LAYER_DOCUMENTATION ->
             DocumentationValidator(rag, engine, code_intent, framework, code_analysis)
      [] layer = LAYER_MEMORY -> MemoryValidator(memory, code_intent, framework)
      [] layer = LAYER_TYPE_SAFETY -> TypeSafetyValidator(code_analysis)

\* a variant of validation_error that records the failure without an issue
validation_error_without_issue(layer) ==
    LayerValidationResult(layer, 0, <<>>, <<>>, TRUE)

\* the LayerValidationResult of the except branch of _run_validation_layer
validation_error(layer) ==
    LayerValidationResult(layer, 0,
        <<ValidationIssue(layer, "critical", "validation_error")>>, <<>>, TRUE)

\* the LayerValidationResult that Step 3 of validate_code_generation substitutes
\* for an entry of gather's list that is an Exception
layer_failure(layer) ==
    LayerValidationResult(layer, 0,
        <<ValidationIssue(layer, "critical", "layer_failure")>>, <<>>, TRUE)

\* what a task of a parallel layer can do: "ok" (validate returns), "raise" (validate
\* raises), "escaped" (the exception leaves _run_validation_layer, so gather lists it)
Outcomes == {"ok", "raise", "escaped"}

\* MultiLayerValidationEngine._run_validation_layer
run_validation_layer(layer, outcome, engine, rag, memory, code_intent, framework, code_analysis) ==
    IF outcome = "ok"
    THEN Validate(layer, engine, rag, memory, code_intent, framework, code_analysis)
    ELSE validation_error(layer)

\* a variant of layer_weights that exchanges the weights of the structural and
\* the temporal layer
layer_weights_exchanged ==
    (LAYER_STRUCTURAL :> 20) @@ (LAYER_TEMPORAL :> 25) @@ (LAYER_DOCUMENTATION :> 20)
    @@ (LAYER_MEMORY :> 15) @@ (LAYER_TYPE_SAFETY :> 15) @@ (LAYER_CONSENSUS :> 5)

\* layer_weights of _calculate_final_result
layer_weights ==
    (LAYER_STRUCTURAL :> 25) @@ (LAYER_TEMPORAL :> 20) @@ (LAYER_DOCUMENTATION :> 20)
    @@ (LAYER_MEMORY :> 15) @@ (LAYER_TYPE_SAFETY :> 15) @@ (LAYER_CONSENSUS :> 5)

\* layer_weights of _calculate_consensus_score
consensus_layer_weights ==
    (LAYER_STRUCTURAL :> 25) @@ (LAYER_TEMPORAL :> 20) @@ (LAYER_DOCUMENTATION :> 20)
    @@ (LAYER_MEMORY :> 15) @@ (LAYER_TYPE_SAFETY :> 15) @@ (LAYER_CONSENSUS :> 5)

\* weights.get(layer_name, 0.0)
WeightOf(weights, layer_name) ==
    IF layer_name \in DOMAIN weights THEN weights[layer_name] ELSE 0

\* weighted_score / total_weight if total_weight > 0 else 0.0
WeightedScore(weights, layer_results) ==
    LET names == DOMAIN layer_results
        weighted_score == SetSum([l \in names |->
                                    layer_results[l].confidence * WeightOf(weights, l)], names)
        total_weight == SetSum([l \in names |-> WeightOf(weights, l)], names)
    IN IF total_weight > 0 THEN (weighted_score * WeightOne) \div total_weight ELSE 0

\* MultiLayerValidationEngine._calculate_consensus_score
calculate_consensus_score(layer_results) ==
    WeightedScore(consensus_layer_weights, layer_results)

\* MultiLayerValidationEngine._generate_recommendations
generate_recommendations(layer_results, consensus_score) ==
    LET Low(layer) == /\ layer \in DOMAIN layer_results
                      /\ layer_results[layer].confidence < 800
    IN (IF consensus_score < 50000
        THEN <<"very low confidence", "review API documentation">>
        ELSE IF consensus_score < confidence_threshold
        THEN <<"moderate confidence">>
        ELSE <<>>)
       \o (IF Low(LAYER_STRUCTURAL) THEN <<"verify API methods">> ELSE <<>>)
       \o (IF Low(LAYER_TEMPORAL) THEN <<"use proven patterns">> ELSE <<>>)
       \o (IF Low(LAYER_DOCUMENTATION) THEN <<"cross-reference documentation">> ELSE <<>>)
       \o (IF Low(LAYER_MEMORY) THEN <<"review past decisions">> ELSE <<>>)
       \o (IF CriticalIssues(layer_results) # <<>>
           THEN <<"address critical issues">> ELSE <<>>)

\* no validated approach (validated_approach = None)
NoApproach ==
    [present |-> FALSE, confidence |-> 0, patterns |-> <<>>, apis |-> <<>>,
     template |-> FALSE]

\* MultiLayerValidationEngine._generate_validated_approach
generate_validated_approach(framework, layer_results) ==
    LET Items(layer, n) ==
            IF layer \in DOMAIN layer_results
            THEN SubSeq(layer_results[layer].validated_items, 1,
                        Min(n, Len(layer_results[layer].validated_items)))
            ELSE <<>>
    IN [present |-> TRUE,
        confidence |-> calculate_consensus_score(layer_results),
        patterns |-> Items(LAYER_TEMPORAL, 3),
        apis |-> Items(LAYER_STRUCTURAL, 5),
        template |-> framework = "PydanticAI"]

\* all_issues, sorted by severity (a stable sort)
SortedIssues(layer_results) ==
    LET all_issues == Concat([i \in 1..Len(ValidationLayer) |->
                                IF ValidationLayer[i] \in DOMAIN layer_results
                                THEN layer_results[ValidationLayer[i]].issues
                                ELSE <<>>])
    IN Concat([s \in 1..Len(ValidationSeverity) |->
                 SelectSeq(all_issues, LAMBDA issue : issue.severity = ValidationSeverity[s])])

\* a variant of calculate_final_result that gives a validated approach from a
\* consensus_score of 0.5 on, whatever the threshold
calculate_final_result_from_half(layer_results, framework) ==
    LET consensus_score == WeightedScore(layer_weights, layer_results)
    IN [consensus_score |-> consensus_score,
        layer_results |-> layer_results,
        overall_issues |-> SortedIssues(layer_results),
        validated_approach |-> IF consensus_score >= 50000
                               THEN generate_validated_approach(framework, layer_results)
                               ELSE NoApproach,
        confidence_breakdown |-> [l \in DOMAIN layer_results |-> layer_results[l].confidence],
        recommendations |-> generate_recommendations(layer_results, consensus_score)]

\* MultiLayerValidationEngine._calculate_final_result
calculate_final_result(layer_results, framework) ==
    LET consensus_score == WeightedScore(layer_weights, layer_results)
    IN [consensus_score |-> consensus_score,
        layer_results |-> layer_results,
        overall_issues |-> SortedIssues(layer_results),
        validated_approach |-> IF consensus_score >= confidence_threshold
                               THEN generate_validated_approach(framework, layer_results)
                               ELSE NoApproach,
        confidence_breakdown |-> [l \in DOMAIN layer_results |-> layer_results[l].confidence],
        recommendations |-> generate_recommendations(layer_results, consensus_score)]

\* an entry of gather's list: the task of a parallel layer is "pending", has
\* returned a "result", has ended with an "exception", or is "blocked" for ever in
\* a retrieval call that never returns; outcome is what the validator of the task
\* did ("none" while it has not ended)
Task(state, outcome, result) == [state |-> state, outcome |-> outcome, result |-> result]
PendingTask(layer) ==
    Task("pending", "none", LayerValidationResult(layer, 0, <<>>, <<>>, FALSE))

\* the Knowledge Store after the task of a layer ran to its end: the Temporal
\* validator that returns has called query_successful_patterns once (a
\* validator that raises does so in its first retrieval call)
EngineAfter(layer, outcome, engine) ==
    IF layer = LAYER_TEMPORAL /\ outcome = "ok" THEN query_counted(engine) ELSE engine

\* Hybrid Retrieval after the task of a layer ran to its end: the Documentation
\* validator that returns has called hybrid_search once and validate_api_usage
\* once for every call site
RagAfter(layer, outcome, rag, code_analysis) ==
    IF layer = LAYER_DOCUMENTATION /\ outcome = "ok"
    THEN searches_counted(rag, 1 + (IF code_analysis.present
                                    THEN Len(code_analysis.api_calls) ELSE 0))
    ELSE rag

\* the task of a layer after it ran to its end with the given outcome
FinishedTask(layer, outcome, engine, rag, memory, code_intent, framework, code_analysis) ==
    IF outcome = "escaped"
    THEN Task("exception", outcome, LayerValidationResult(layer, 0, <<>>, <<>>, TRUE))
    ELSE Task("result", outcome,
              run_validation_layer(layer, outcome, engine, rag, memory,
                                   code_intent, framework, code_analysis))

\* a variant of gather_returns that returns as soon as one task has ended
gather_returns_first_completed(tasks) ==
    \E l \in DOMAIN tasks : tasks[l].state \in {"result", "exception"}

\* asyncio.gather of the layer tasks, with return_exceptions=True, returns when every task
\* has ended
gather_returns(tasks) ==
    \A l \in DOMAIN tasks : tasks[l].state \in {"result", "exception"}

\* Step 3 of validate_code_generation: processed_results
process_layer_results(tasks) ==
    [l \in DOMAIN tasks |->
        IF tasks[l].state = "exception" THEN layer_failure(l) ELSE tasks[l].result]

\* Steps 4 and 5 of validate_code_generation, for a Consensus validator that returns
consensus_and_final_result(processed, framework) ==
    calculate_final_result(
        [l \in Layers |-> IF l = LAYER_CONSENSUS THEN ConsensusValidator(processed)
                          ELSE processed[l]],
        framework)

\* the code_analysis of Step 1
Step1Analysis(generated_code) ==
    IF generated_code # <<>> THEN analyze_code_structure(generated_code) ELSE NoAnalysis

\* validate_code_generation run as a whole, when its Consensus validator returns:
\* the ValidationResult for the given outcomes of the five parallel tasks
validate_code_generation_result(engine, rag, memory, code_intent, framework, generated_code, outcomes) ==
    consensus_and_final_result(
        process_layer_results(
            [l \in ParallelLayers |->
                FinishedTask(l, outcomes[l], engine, rag, memory, code_intent, framework,
                             Step1Analysis(generated_code))]),
        framework)

\* what the five tasks of validate_code_generation run as a whole leave in the
\* Knowledge Store and in Hybrid Retrieval
EngineAfterValidation(engine, outcomes) ==
    EngineAfter(LAYER_TEMPORAL, outcomes[LAYER_TEMPORAL], engine)

RagAfterValidation(rag, generated_code, outcomes) ==
    RagAfter(LAYER_DOCUMENTATION, outcomes[LAYER_DOCUMENTATION], rag,
             Step1Analysis(generated_code))

\* no ValidationResult (the call has not returned one)
NoValidationResult ==
    [consensus_score |-> 0, layer_results |-> <<>>, overall_issues |-> <<>>,
     validated_approach |-> NoApproach, confidence_breakdown |-> <<>>,
     recommendations |-> <<>>]

-----------------------------------------------------------------------------
(* The detector: HallucinationDetectionEngine *)

\* HallucinationDetectionEngine.__init__: hallucination_threshold = 0.3
hallucination_threshold == 30000

\* A usage is a fragment of code text, [k, a, b]:
\*   k = "name"     the identifier <a>
\*   k = "call"     <a>.<b>            (the full_call of a call site)
\*   k = "call("    <a>.<b>(           (a literal of common_hallucinations)
\*   k = "ctor("    <a>(               (a literal of common_hallucinations)
\*   k = "import"   from <a> import <b>
\*   k = "template" the code template of the failed pattern named <a>
\*   k = "none"     None
Usage(k, a, b) == [k |-> k, a |-> a, b |-> b]
NoUsage == Usage("none", "", "")

\* HallucinationDetectionEngine._load_framework_patterns
framework_patterns ==
    [PydanticAI |->
        [valid_classes |-> <<"Agent", "RunResult", "StreamEvent">>,
         invalid_classes |-> <<"PydanticAgent", "AIAgent", "PydanticAIAgent">>,
         valid_methods |-> [Agent |-> <<"run", "run_sync", "stream", "__init__">>],
         invalid_methods |->
             [Agent |-> <<"run_async", "execute", "execute_sync", "sync_run",
                          "add_validation_rule", "execute_with_memory", "chat", "complete">>],
         valid_imports |-> <<Usage("import", "pydantic_ai", "Agent"),
                             Usage("import", "", "pydantic_ai")>>,
         invalid_imports |-> <<Usage("import", "pydantic_ai", "PydanticAgent"),
                               Usage("import", "pydantic", "Agent")>>,
         common_hallucinations |->
             <<Usage("call(", "agent", "add_validation_rule"),
               Usage("call(", "agent", "execute_with_memory"),
               Usage("ctor(", "PydanticAgent", ""),
               Usage("call(", "agent", "run_async"),
               Usage("call(", "agent", "execute"),
               Usage("call(", "agent", "chat"),
               Usage("call(", "agent", "complete")>>],
     FastAPI |->
        [valid_classes |-> <<"FastAPI", "Request", "Response", "HTTPException">>,
         invalid_classes |-> <<"FastAPIApp", "APIFast", "FastApp">>,
         valid_methods |->
             [FastAPI |-> <<"get", "post", "put", "delete", "patch", "options", "head">>],
         invalid_methods |->
             [FastAPI |-> <<"create_route", "add_endpoint", "register_handler">>],
         valid_imports |-> <<>>,
         invalid_imports |-> <<>>,
         common_hallucinations |->
             <<Usage("call(", "app", "create_route"),
               Usage("call(", "app", "add_endpoint"),
               Usage("ctor(", "FastAPIApp", ""),
               Usage("call(", "app", "register_handler")>>]]

\* Hallucination
Hallucination(type, incorrect_usage, correct_usage, confidence, framework) ==
    [type |-> type, incorrect_usage |-> incorrect_usage, correct_usage |-> correct_usage,
     confidence |-> confidence, framework |-> framework]

\* HallucinationDetectionEngine._analyze_code_structure: the CodeAnalysis of the
\* detector (patterns is always empty)
detector_analyze_code_structure(code) ==
    IF ~Parses(code) THEN EmptyAnalysis
    ELSE [analyze_code_structure(code) EXCEPT !.patterns = <<>>]

\* the number of characters of an identifier of the model
Length(s) ==
    CASE s \in {"run"} -> 3
      [] s \in {"Agent", "agent"} -> 5
      [] s \in {"stream"} -> 6
      [] s \in {"run_sync", "__init__"} -> 8
      [] s \in {"run_async", "RunResult"} -> 9
      [] s \in {"StreamEvent"} -> 11
      [] s \in {"PydanticAgent"} -> 13
      [] s \in {"add_validation_rule"} -> 19
      [] OTHER -> 7

\* sum(1 for c in s1.lower() if c in s2.lower()) on the identifiers of the model
CommonChars(s1, s2) ==
    CASE <<s1, s2>> = <<"PydanticAgent", "Agent">> -> 8
      [] <<s1, s2>> = <<"PydanticAgent", "RunResult">> -> 5
      [] <<s1, s2>> = <<"PydanticAgent", "StreamEvent">> -> 7
      [] <<s1, s2>> = <<"add_validation_rule", "run">> -> 3
      [] <<s1, s2>> = <<"add_validation_rule", "run_sync">> -> 5
      [] <<s1, s2>> = <<"add_validation_rule", "stream">> -> 6
      [] <<s1, s2>> = <<"add_validation_rule", "__init__">> -> 6
      [] <<s1, s2>> = <<"run_async", "run">> -> 4
      [] <<s1, s2>> = <<"run_async", "run_sync">> -> 8
      [] <<s1, s2>> = <<"run_async", "stream">> -> 3
      [] <<s1, s2>> = <<"run_async", "__init__">> -> 3
      [] OTHER -> 0

\* HallucinationDetectionEngine._string_similarity(s1, s2) > tenths / 10
string_similarity_exceeds(s1, s2, tenths) ==
    IF Lower(s1) = Lower(s2) THEN 10 > tenths
    ELSE 10 * 2 * CommonChars(s1, s2) > tenths * (Length(s1) + Length(s2))

\* the first element of valid that is similar enough, else the first element,
\* else None
FirstSimilar(incorrect, valid, tenths) ==
    LET hits == SelectSeq(valid, LAMBDA v : string_similarity_exceeds(incorrect, v, tenths))
    IN IF hits # <<>> THEN <<Head(hits)>>
       ELSE IF valid # <<>> THEN <<Head(valid)>> ELSE <<>>

\* HallucinationDetectionEngine._find_correct_class: <<class>> or <<>> for None
find_correct_class(incorrect_class, valid_classes) ==
    FirstSimilar(incorrect_class, valid_classes, 6)

\* HallucinationDetectionEngine._find_correct_method: <<method>> or <<>> for None
find_correct_method(incorrect_method, valid_methods) ==
    CASE incorrect_method = "run_async" -> <<"run">>
      [] incorrect_method \in {"execute", "execute_sync", "sync_run", "chat", "complete"} ->
             <<"run_sync">>
      [] OTHER -> FirstSimilar(incorrect_method, valid_methods, 6)

\* HallucinationDetectionEngine._find_correct_import (every invalid import of the
\* rule tables is more than 0.5 similar to the first valid import)
find_correct_import(incorrect_import, valid_imports) ==
    IF Contains(incorrect_import.b, "PydanticAgent")
    THEN Usage("import", "pydantic_ai", "Agent")
    ELSE IF valid_imports # <<>> THEN Head(valid_imports) ELSE NoUsage

\* table.get(key, []) of a record of lists
GetList(table, key) == IF key \in DOMAIN table THEN table[key] ELSE <<>>

\* `literal in code`, for a literal of common_hallucinations
LiteralInCode(literal, code) ==
    \E i \in 1..Len(code) :
        \/ /\ literal.k = "call(" /\ code[i].k = "call"
           /\ code[i].a = literal.a /\ code[i].b = literal.b
        \/ /\ literal.k = "ctor(" /\ code[i].k = "ctor"
           /\ code[i].a = literal.a

\* HallucinationDetectionEngine._detect_framework_hallucinations, for one framework
\* of the list (a framework without a rule table is skipped)
FrameworkHallucinations(code, analysis, framework) ==
    IF framework \notin DOMAIN framework_patterns THEN <<>>
    ELSE
      LET patterns == framework_patterns[framework]
          bad_classes == SelectSeq(analysis.classes,
                             LAMBDA c : c \in Range(patterns.invalid_classes))
          ClassFinding(c) ==
              LET correct == find_correct_class(c, patterns.valid_classes)
              IN Hallucination("non_existent_class", Usage("name", c, ""),
                     IF correct # <<>> THEN Usage("name", correct[1], "") ELSE NoUsage,
                     950, framework)
          bad_calls == SelectSeq(analysis.api_calls, LAMBDA c :
                           c.method \in Range(GetList(patterns.invalid_methods, c.object)))
          MethodFinding(c) ==
              LET correct == find_correct_method(c.method,
                                 GetList(patterns.valid_methods, c.object))
              IN Hallucination("non_existent_method", Usage("call", c.object, c.method),
                     IF correct # <<>> THEN Usage("call", c.object, correct[1]) ELSE NoUsage,
                     980, framework)
          bad_imports == SelectSeq(analysis.imports, LAMBDA s :
                             \E i \in 1..Len(patterns.invalid_imports) :
                                 /\ patterns.invalid_imports[i].a = s.a
                                 /\ patterns.invalid_imports[i].b = s.b)
          ImportFinding(s) ==
              Hallucination("incorrect_import", Usage("import", s.a, s.b),
                  find_correct_import(s, patterns.valid_imports), 900, framework)
          literals == SelectSeq(patterns.common_hallucinations,
                          LAMBDA l : LiteralInCode(l, code))
          LiteralFinding(l) ==
              Hallucination("incorrect_usage_pattern", l, NoUsage, 920, framework)
      IN [i \in 1..Len(bad_classes) |-> ClassFinding(bad_classes[i])]
         \o [i \in 1..Len(bad_calls) |-> MethodFinding(bad_calls[i])]
         \o [i \in 1..Len(bad_imports) |-> ImportFinding(bad_imports[i])]
         \o [i \in 1..Len(literals) |-> LiteralFinding(literals[i])]

\* HallucinationDetectionEngine._detect_framework_hallucinations
detect_framework_hallucinations(code, analysis, frameworks) ==
    Concat([i \in 1..Len(frameworks) |-> FrameworkHallucinations(code, analysis, frameworks[i])])

\* re.findall(r'\w+', code.lower()) of a code string
CodeTokens(code) ==
    UNION {LET s == code[i]
           IN CASE s.k = "import" -> {"from", Lower(s.a), "import", Lower(s.b)}
                [] s.k = "ctor" -> {Lower(s.a)}
                [] s.k = "call" -> {Lower(s.a), Lower(s.b)}
                [] s.k = "classdef" -> {"class", Lower(s.a)}
                [] s.k = "def" -> {"def"}
                [] s.k = "try" -> {"try", "except"}
                [] s.k = "asyncdef" -> {"async", "def"}
                [] s.k = "await" -> {"await"}
                [] OTHER -> {"garbage"} : i \in 1..Len(code)}

\* re.findall(r'\w+', template.lower()) of a code template
TemplateTokens(template) ==
    UNION {Range(LowerWord(template[i])) : i \in 1..Len(template)}

\* HallucinationDetectionEngine._calculate_pattern_similarity, in thousandths
calculate_pattern_similarity(tokens1, tokens2) ==
    IF tokens1 = {} \/ tokens2 = {} THEN 0
    ELSE (Cardinality(tokens1 \cap tokens2) * One) \div Cardinality(tokens1 \cup tokens2)

\* HallucinationDetectionEngine._detect_pattern_hallucinations
detect_pattern_hallucinations(engine, code, frameworks) ==
    LET Findings(framework) ==
            LET failed_patterns == query_failed_patterns(engine, framework, 365)
                hits == SelectSeq(failed_patterns, LAMBDA p :
                            SimilarityExceeds(CodeTokens(code),
                                              TemplateTokens(p.code_template), 7))
            IN [i \in 1..Len(hits) |->
                  Hallucination("incorrect_usage_pattern",
                      Usage("template", hits[i].name, ""), NoUsage,
                      calculate_pattern_similarity(CodeTokens(code),
                          TemplateTokens(hits[i].code_template)),
                      framework)]
    IN Concat([i \in 1..Len(frameworks) |-> Findings(frameworks[i])])

\* Cypher's levenshtein(m.name, $method_name) <= 2 on the identifiers of the model
Levenshtein2(s1, s2) ==
    \/ s1 = s2
    \/ {s1, s2} = {"run_sync", "run_async"}

\* HallucinationDetectionEngine._check_structural_existence: "exists" and the
\* "suggestion" (a usage, NoUsage for None).  LIMIT 1 takes one of the similar
\* methods; the graphs of the model hold at most one for a name
check_structural_existence(engine, api_call, framework) ==
    IF ~engine.available THEN [exists |-> FALSE, suggestion |-> NoUsage]
    ELSE IF \E m \in engine.kg : /\ m.framework = framework
                                 /\ m.class = api_call.object
                                 /\ m.method = api_call.method
    THEN [exists |-> TRUE, suggestion |-> NoUsage]
    ELSE LET similar == {m \in engine.kg : /\ m.framework = framework
                                           /\ Levenshtein2(m.method, api_call.method)}
         IN [exists |-> FALSE,
             suggestion |-> IF similar = {} THEN NoUsage
                            ELSE LET m == CHOOSE x \in similar : TRUE
                                 IN Usage("call", m.class, m.method)]

\* HallucinationDetectionEngine._detect_knowledge_hallucinations
detect_knowledge_hallucinations(rag, engine, analysis, frameworks) ==
    LET CallFindings(api_call, framework) ==
            LET rag_validation == validate_api_usage(rag, engine, api_call, framework)
                structural_exists == check_structural_existence(engine, api_call, framework)
                full_call == Usage("call", api_call.object, api_call.method)
            IN (IF ~rag_validation.is_valid \/ rag_validation.confidence < 500
                THEN <<Hallucination("non_existent_method", full_call, NoUsage,
                                     One - rag_validation.confidence, framework)>>
                ELSE <<>>)
               \o (IF ~structural_exists.exists
                   THEN <<Hallucination("non_existent_method", full_call,
                                        structural_exists.suggestion, 950, framework)>>
                   ELSE <<>>)
        Findings(framework) ==
            Concat([i \in 1..Len(analysis.api_calls) |->
                      CallFindings(analysis.api_calls[i], framework)])
    IN Concat([i \in 1..Len(frameworks) |-> Findings(frameworks[i])])

\* Steps 3 to 6 of detect_hallucination: all_hallucinations
all_hallucinations(rag, engine, code, analysis, frameworks) ==
    detect_framework_hallucinations(code, analysis, frameworks)
    \o detect_pattern_hallucinations(engine, code, frameworks)
    \o detect_knowledge_hallucinations(rag, engine, analysis, frameworks)

\* the hallucinations of the two types that _calculate_confidence_score counts as
\* critical
critical_hallucinations(hallucinations) ==
    SelectSeq(hallucinations,
              LAMBDA h : h.type \in {"non_existent_class", "non_existent_method"})

\* a variant of calculate_confidence_score that is not floored at 0
calculate_confidence_score_without_floor(validation_results, hallucinations) ==
    IF DOMAIN validation_results = {} THEN 0
    ELSE LET avg_validation_confidence ==
                 SetSum([f \in DOMAIN validation_results |->
                            validation_results[f].consensus_score],
                        DOMAIN validation_results)
                 \div Cardinality(DOMAIN validation_results)
             hallucination_penalty == Min(80000, Len(hallucinations) * 20000)
             critical_penalty ==
                 Min(50000, Len(critical_hallucinations(hallucinations)) * 30000)
         IN avg_validation_confidence - hallucination_penalty - critical_penalty

\* a variant of calculate_confidence_score without the penalty for the findings
\* of a class or a method that does not exist
calculate_confidence_score_one_penalty(validation_results, hallucinations) ==
    IF DOMAIN validation_results = {} THEN 0
    ELSE LET avg_validation_confidence ==
                 SetSum([f \in DOMAIN validation_results |->
                            validation_results[f].consensus_score],
                        DOMAIN validation_results)
                 \div Cardinality(DOMAIN validation_results)
             hallucination_penalty == Min(80000, Len(hallucinations) * 20000)
         IN Max(0, avg_validation_confidence - hallucination_penalty)

\* HallucinationDetectionEngine._calculate_confidence_score: validation_results is a
\* dict framework -> ValidationResult
calculate_confidence_score(validation_results, hallucinations) ==
    IF DOMAIN validation_results = {} THEN 0
    ELSE LET avg_validation_confidence ==
                 SetSum([f \in DOMAIN validation_results |->
                            validation_results[f].consensus_score],
                        DOMAIN validation_results)
                 \div Cardinality(DOMAIN validation_results)
             hallucination_penalty == Min(80000, Len(hallucinations) * 20000)
             critical_penalty ==
                 Min(50000, Len(critical_hallucinations(hallucinations)) * 30000)
         IN Max(0, avg_validation_confidence - hallucination_penalty - critical_penalty)

RECURSIVE SortByConfidence(_)
\* sorted(hallucinations, key=lambda x: x.confidence, reverse=True): stable
SortByConfidence(hs) ==
    IF hs = <<>> THEN <<>>
    ELSE LET i == CHOOSE j \in 1..Len(hs) :
                      /\ \A k \in 1..Len(hs) : hs[j].confidence >= hs[k].confidence
                      /\ \A k \in 1..(j - 1) : hs[k].confidence < hs[j].confidence
         IN <<hs[i]>> \o SortByConfidence(SubSeq(hs, 1, i - 1) \o SubSeq(hs, i + 1, Len(hs)))

\* s.startswith(prefix) on the identifiers of the model
StartsWith(s, prefix) ==
    \/ s = prefix
    \/ <<s, prefix>> \in {<<"run_sync", "run">>, <<"run_async", "run">>}

\* str.replace(incorrect, correct) within one statement.  An identifier is
\* replaced where it occurs; "<a>.<b>" is replaced in a call of a method that
\* starts with <b> on a receiver <a> (the rest of the method name stays, and the
\* model only replaces a proper prefix <b> by <b> itself)
ReplaceInStmt(stmt, incorrect, correct) ==
    CASE incorrect.k = "name" /\ correct.k = "name" ->
             [stmt EXCEPT !.a = IF @ = incorrect.a THEN correct.a ELSE @,
                          !.b = IF @ = incorrect.a THEN correct.a ELSE @]
      [] incorrect.k = "call" /\ correct.k = "call" /\ stmt.k = "call"
         /\ stmt.a = incorrect.a /\ StartsWith(stmt.b, incorrect.b) ->
             Stmt("call", correct.a, IF stmt.b = incorrect.b THEN correct.b ELSE stmt.b)
      [] incorrect.k = "import" /\ correct.k = "import" /\ stmt.k = "import"
         /\ stmt.a = incorrect.a /\ stmt.b = incorrect.b ->
             Stmt("import", correct.a, correct.b)
      [] OTHER -> stmt

\* corrected_code.replace(hallucination.incorrect_usage, hallucination.correct_usage)
Replace(code, incorrect, correct) ==
    [i \in 1..Len(code) |-> ReplaceInStmt(code[i], incorrect, correct)]

\* CorrectionSuggestion
CorrectionSuggestion(hallucination) ==
    [original_code |-> hallucination.incorrect_usage,
     corrected_code |-> hallucination.correct_usage,
     confidence |-> hallucination.confidence]

RECURSIVE ApplyCorrections(_, _, _)
\* the loop of _generate_corrections over sorted_hallucinations
ApplyCorrections(corrected_code, correction_suggestions, sorted_hallucinations) ==
    IF sorted_hallucinations = <<>>
    THEN [corrected_code |-> corrected_code,
          correction_suggestions |-> correction_suggestions]
    ELSE LET hallucination == Head(sorted_hallucinations)
             replaced == IF hallucination.correct_usage # NoUsage
                         THEN Replace(corrected_code, hallucination.incorrect_usage,
                                      hallucination.correct_usage)
                         ELSE corrected_code
         IN ApplyCorrections(replaced,
                IF replaced # corrected_code
                THEN Append(correction_suggestions, CorrectionSuggestion(hallucination))
                ELSE correction_suggestions,
                Tail(sorted_hallucinations))

\* a variant of corrections that takes the findings in the order they were found
corrections_as_found(original_code, hallucinations) ==
    ApplyCorrections(original_code, <<>>, hallucinations)


\* HallucinationDetectionEngine._generate_corrections up to the validation of the
\* corrected code
corrections(original_code, hallucinations) ==
    ApplyCorrections(original_code, <<>>, SortByConfidence(hallucinations))

\* the framework _generate_corrections validates the corrected code for
correction_framework(frameworks) ==
    IF frameworks # <<>> THEN Head(frameworks) ELSE "Unknown"

\* the corrected_code that _generate_corrections returns, given the consensus
\* score of the validation of the corrected code: [present, code]
generate_corrections(original_code, hallucinations, validation_score) ==
    LET corrected == corrections(original_code, hallucinations).corrected_code
    IN IF corrected # original_code /\ validation_score < 80000
       THEN [present |-> FALSE, code |-> <<>>]
       ELSE [present |-> TRUE, code |-> corrected]

-----------------------------------------------------------------------------
(* The knowledge states and the inputs of the model *)

Intents == {"intent", "code validation", "corrected code validation"}
Queries == Intents \cup {"usage example"}
Frameworks == {"PydanticAI", "Django"}

PydanticGraph ==
    {Method("PydanticAI", "Agent", "run_sync", 1000),
     Method("PydanticAI", "Agent", "run", 950)}

SuccessPattern ==
    Pattern("AgentRunSync", "PydanticAI", "success",
            << <<"Agent", "run_sync">>, <<"pattern">> >>, 980, 50, 10)
StalePattern ==
    Pattern("OldSetup", "PydanticAI", "success",
            << <<"agent", "add_validation_rule">>, <<"pattern">> >>, 900, 3, 400)
FailedPattern ==
    Pattern("ValidationRule", "PydanticAI", "failure",
            << <<"agent", "add_validation_rule">>, <<"pattern">> >>, 100, 7, 30)
FailedTemplate ==
    Pattern("RuleOnly", "PydanticAI", "failure",
            << <<"Agent", "run_sync">>, <<"agent", "add_validation_rule">> >>, 0, 4, 200)

GoodWorld ==
    [engine |-> [available |-> TRUE, set_items_in_order |-> TRUE, query_count |-> 0,
                 kg |-> PydanticGraph,
                 patterns |-> <<SuccessPattern>>],
     rag |-> [search_count |-> 0,
              search_confidence |-> [q \in Queries |-> IF q = "intent" THEN 1000 ELSE 900],
              api_references |-> TRUE],
     memory |-> [confidence |-> [q \in Intents |-> 1000],
                 relevant_decisions |-> <<{"pydanticai"}, {"fastapi"}>>,
                 warnings |-> <<>>]]

MixedWorld ==
    [engine |-> [available |-> TRUE, set_items_in_order |-> TRUE, query_count |-> 0,
                 kg |-> PydanticGraph,
                 patterns |-> <<StalePattern, FailedPattern, SuccessPattern, FailedTemplate>>],
     rag |-> [search_count |-> 0, search_confidence |->
                  [q \in Queries |-> IF q = "corrected code validation" THEN 800 ELSE 600],
              api_references |-> FALSE],
     memory |-> [confidence |-> [q \in Intents |-> IF q = "intent" THEN 500 ELSE 700],
                 relevant_decisions |-> <<{"pydanticai"}>>,
                 warnings |-> <<{"pydanticai", "django"}>>]]

PoorWorld ==
    [engine |-> [available |-> TRUE, set_items_in_order |-> TRUE, query_count |-> 0, kg |-> {},
                 patterns |-> <<>>],
     rag |-> [search_count |-> 0, search_confidence |-> [q \in Queries |-> 0],
              api_references |-> FALSE],
     memory |-> [confidence |-> [q \in Intents |-> 0],
                 relevant_decisions |-> <<>>, warnings |-> <<>>]]

Worlds == {GoodWorld, MixedWorld, PoorWorld}

\* Scenario A: from pydantic_ai import Agent; agent = Agent(...); agent.run_sync(...)
CodeA == <<Stmt("import", "pydantic_ai", "Agent"), Stmt("ctor", "Agent", ""),
           Stmt("call", "agent", "run_sync")>>
\* Scenario B: the class PydanticAgent
CodeB == <<Stmt("import", "pydantic_ai", "PydanticAgent"), Stmt("ctor", "PydanticAgent", ""),
           Stmt("call", "agent", "run_sync")>>
\* Scenario C: agent.add_validation_rule(...)
CodeC == <<Stmt("import", "pydantic_ai", "Agent"), Stmt("ctor", "Agent", ""),
           Stmt("call", "agent", "add_validation_rule")>>
\* Scenario D: a string that does not parse
CodeD == <<Stmt("garbage", "", "")>>
\* a call of an invalid method on the class itself, in an async def without an
\* await
CodeE == <<Stmt("import", "pydantic_ai", "Agent"), Stmt("asyncdef", "", ""),
           Stmt("call", "Agent", "run_async")>>
\* annotated, guarded code whose call the knowledge graph holds
CodeF == <<Stmt("def", "", "annotated"), Stmt("try", "", ""),
           Stmt("call", "Agent", "run_sync")>>
\* one call the knowledge graph holds and one it does not
CodeG == <<Stmt("call", "Agent", "run_sync"), Stmt("call", "agent", "add_validation_rule")>>

Codes == {<<>>, CodeA, CodeB, CodeC, CodeD, CodeE, CodeF, CodeG}

-----------------------------------------------------------------------------
(* State *)

VARIABLES
    graphiti_engine,    \* the Knowledge Store: the graph and the patterns
    rag_system,         \* Hybrid Retrieval
    memory_bank,        \* the Memory/History service
    statements,         \* the statements the sessions of the Knowledge Store's driver
                        \* were given by store_pattern and update_pattern_usage
    calls,              \* the number of calls the caller of the two engines has made
    validation_count,   \* MultiLayerValidationEngine.validation_count
    detection_count,    \* HallucinationDetectionEngine.detection_count
    vpc,                \* where the validate_code_generation call in progress is
    vcall,              \* its arguments
    code_analysis,      \* its code_analysis
    layer_tasks,        \* the five tasks given to asyncio.gather
    processed_results,  \* its processed_results
    consensus_input,    \* the layer results its Consensus validator was given
    vresult,            \* the ValidationResult it returned
    dpc,                \* where the detect_hallucination call in progress is
    dcall,              \* its arguments
    dindex,             \* the index of Step 2's loop over frameworks
    validation_results, \* its validation_results
    hallucinations,     \* its all_hallucinations
    confidence_score,   \* its confidence_score
    dresult,            \* the HallucinationResult it returned
    now,                \* datetime.now(), in ticks of the clock
    start_time,         \* the start_time of the call in progress of each engine
    total_validation_time,  \* MultiLayerValidationEngine.total_validation_time
    total_detection_time,   \* HallucinationDetectionEngine.total_detection_time
    results_kept,           \* the caller keeps what its calls return, as the gather
                            \* of test_concurrent_operations does
    returned_validations,   \* the validate_code_generation calls that returned, if
                            \* kept (a bag)
    returned_detections     \* the detect_hallucination calls that returned, if kept
                            \* (a bag)

world == <<graphiti_engine, rag_system, memory_bank, statements, confidence_threshold>>
vstate == <<vpc, vcall, code_analysis, layer_tasks, processed_results, consensus_input,
            vresult>>
dstate == <<dpc, dcall, dindex, validation_results, hallucinations, confidence_score,
            dresult>>
counters == <<validation_count, detection_count>>
times == <<total_validation_time, total_detection_time>>
returned == <<results_kept, returned_validations, returned_detections>>
vars == <<world, calls, counters, vstate, dstate, now, start_time, times, returned>>

\* the number of calls of the caller the model follows
MaxCalls == 1
\* the length of the frameworks list of a detect_hallucination call
MaxFrameworks == 2

NoCall == [code_intent |-> "intent", framework |-> "PydanticAI", generated_code |-> <<>>]
NoDetectCall == [generated_code |-> <<>>, frameworks |-> <<>>, code_intent |-> ""]

\* no corrected code (corrected_code = None)
NoCode == [present |-> FALSE, code |-> <<>>]

\* no HallucinationResult (the call has not returned one)
NoHallucinationResult ==
    [is_hallucination |-> FALSE, confidence_score |-> 0, detected_hallucinations |-> <<>>,
     corrected_code |-> NoCode, correction_suggestions |-> <<>>,
     validation_breakdown |-> <<>>]

\* the lists of at most MaxFrameworks frameworks
FrameworkLists == UNION {[1..n -> Frameworks] : n \in 0..MaxFrameworks}

\* the outcomes of the five tasks of a validation that detect_hallucination
\* awaits: every validator returns, or the Structural validator raises
NestedOutcomes ==
    {[l \in ParallelLayers |-> "ok"],
     [l \in ParallelLayers |-> IF l = LAYER_STRUCTURAL THEN "raise" ELSE "ok"]}

\* the codes a caller gives to validate_code_generation: none, a correct one and
\* one with a call the knowledge graph does not hold
ValidatedCodes == {<<>>, CodeA, CodeG}

\* no validate_code_generation call of a caller in progress
VIdle ==
    /\ vpc = "idle"
    /\ vcall = NoCall
    /\ code_analysis = NoAnalysis
    /\ layer_tasks = [l \in ParallelLayers |-> PendingTask(l)]
    /\ processed_results = <<>>
    /\ consensus_input = <<>>
    /\ vresult = NoValidationResult

\* no detect_hallucination call in progress
DIdle ==
    /\ dpc = "idle"
    /\ dcall = NoDetectCall
    /\ dindex = 1
    /\ validation_results = <<>>
    /\ hallucinations = <<>>
    /\ confidence_score = 0
    /\ dresult = NoHallucinationResult

\* the results of an earlier validate_code_generation call are dropped
VDropped ==
    /\ vpc' = "idle"
    /\ vcall' = NoCall
    /\ code_analysis' = NoAnalysis
    /\ layer_tasks' = [l \in ParallelLayers |-> PendingTask(l)]
    /\ processed_results' = <<>>
    /\ consensus_input' = <<>>
    /\ vresult' = NoValidationResult

\* the results of an earlier detect_hallucination call are dropped
DDropped ==
    /\ dpc' = "idle"
    /\ dcall' = NoDetectCall
    /\ dindex' = 1
    /\ validation_results' = <<>>
    /\ hallucinations' = <<>>
    /\ confidence_score' = 0
    /\ dresult' = NoHallucinationResult

\* what a caller sees of a validate_code_generation call that returned: its
\* arguments, what each of the five validators did, and the scores of the result
ReturnedValidation(code_intent, framework, generated_code, outcomes, result) ==
    [code_intent |-> code_intent, framework |-> framework,
     generated_code |-> generated_code, outcomes |-> outcomes,
     consensus_score |-> result.consensus_score,
     confidence_breakdown |-> result.confidence_breakdown]

\* the results the caller has after one more call returned
Kept(results, result) ==
    IF results_kept THEN results (+) SetToBag({result}) ELSE results

\* a collaborator after a step that counted its queries or searches.  Only
\* get_performance_stats reads these counters; they are followed for the caller
\* that keeps what its calls return, and stay as they are in the state of the
\* caller that never looks at them
Followed(after, before) == IF results_kept THEN after ELSE before

\* (datetime.now() - start_time).total_seconds(), in ticks of the clock
processing_time(start) == now - start

\* the two engines after construction over a world, the validation engine with
\* the given confidence_threshold, and a caller that keeps the results or does
\* not
ConstructedOver(w, threshold, kept) ==
    /\ graphiti_engine = w.engine
    /\ rag_system = w.rag
    /\ memory_bank = w.memory
    /\ statements = <<>>
    /\ confidence_threshold = threshold
    /\ calls = 0
    /\ validation_count = 0
    /\ detection_count = 0
    /\ VIdle
    /\ DIdle
    /\ now = 0
    /\ start_time = [validation |-> 0, detection |-> 0]
    /\ total_validation_time = 0
    /\ total_detection_time = 0
    /\ results_kept = kept
    /\ returned_validations = EmptyBag
    /\ returned_detections = EmptyBag

\* the two engines after construction over one of the worlds
Constructed(threshold, kept) == \E w \in Worlds : ConstructedOver(w, threshold, kept)

\* the engines constructed with the default confidence_threshold
Init == Constructed(default_confidence_threshold, FALSE)

\* the caller is in no call: every earlier call has returned or raised
NoCallInProgress ==
    /\ vpc \in {"idle", "returned", "raised"}
    /\ dpc \in {"idle", "returned", "raised"}
    /\ calls < MaxCalls

\* validate_code_generation is called: Step 1, and Step 2 up to the await of
\* gather (the results of the caller's earlier calls are dropped)
validate_code_generation(code_intent, framework, generated_code) ==
    /\ NoCallInProgress
    /\ calls' = calls + 1
    /\ vpc' = "gather"
    /\ vcall' = [code_intent |-> code_intent, framework |-> framework,
                 generated_code |-> generated_code]
    /\ code_analysis' = Step1Analysis(generated_code)
    /\ layer_tasks' = [l \in ParallelLayers |-> PendingTask(l)]
    /\ processed_results' = <<>>
    /\ consensus_input' = <<>>
    /\ vresult' = NoValidationResult
    /\ DDropped
    /\ start_time' = [start_time EXCEPT !.validation = now]
    /\ UNCHANGED <<world, counters, now, times, returned>>

\* a variant of layer_task_ends in which the validators share a resource that
\* only the first of them to end finds free: the others fail
layer_task_ends_first_served(layer, outcome) ==
    /\ vpc = "gather"
    /\ layer_tasks[layer].state = "pending"
    /\ layer_tasks' = [layer_tasks EXCEPT ![layer] =
                          IF \A l \in ParallelLayers : layer_tasks[l].state = "pending"
                          THEN FinishedTask(layer, outcome, graphiti_engine, rag_system,
                                            memory_bank, vcall.code_intent, vcall.framework,
                                            code_analysis)
                          ELSE Task("result", outcome, validation_error(layer))]
    /\ graphiti_engine' =
           Followed(EngineAfter(layer, outcome, graphiti_engine), graphiti_engine)
    /\ rag_system' =
           Followed(RagAfter(layer, outcome, rag_system, code_analysis), rag_system)
    /\ UNCHANGED <<memory_bank, statements, confidence_threshold, calls, validation_count,
                   detection_count, vpc, vcall, code_analysis, processed_results,
                   consensus_input, vresult, dstate, now, start_time, times, returned>>

\* the task of a parallel layer runs _run_validation_layer to its end
layer_task_ends(layer, outcome) ==
    /\ vpc = "gather"
    /\ layer_tasks[layer].state = "pending"
    /\ layer_tasks' = [layer_tasks EXCEPT ![layer] =
                          FinishedTask(layer, outcome, graphiti_engine, rag_system,
                                       memory_bank, vcall.code_intent, vcall.framework,
                                       code_analysis)]
    /\ graphiti_engine' =
           Followed(EngineAfter(layer, outcome, graphiti_engine), graphiti_engine)
    /\ rag_system' =
           Followed(RagAfter(layer, outcome, rag_system, code_analysis), rag_system)
    /\ UNCHANGED <<memory_bank, statements, confidence_threshold, calls, validation_count,
                   detection_count, vpc, vcall, code_analysis, processed_results,
                   consensus_input, vresult, dstate, now, start_time, times, returned>>

\* the layers whose validate awaits a retrieval call
RetrievalLayers == ParallelLayers \ {LAYER_TYPE_SAFETY}

\* a retrieval call of a layer never returns: no await of the engine has a
\* timeout, so its task stays suspended
layer_task_blocks(layer) ==
    /\ vpc = "gather"
    /\ layer \in RetrievalLayers
    /\ layer_tasks[layer].state = "pending"
    /\ \A l \in ParallelLayers : layer_tasks[l].state # "blocked"
    /\ layer_tasks' = [layer_tasks EXCEPT ![layer].state = "blocked"]
    /\ UNCHANGED <<world, calls, validation_count, detection_count, vpc, vcall, code_analysis,
                   processed_results, consensus_input, vresult, dstate,
                   now, start_time, times, returned>>

\* gather returns and Step 3 builds processed_results
gather_done ==
    /\ vpc = "gather"
    /\ gather_returns(layer_tasks)
    /\ processed_results' = process_layer_results(layer_tasks)
    /\ vpc' = "consensus"
    /\ UNCHANGED <<world, calls, validation_count, detection_count, vcall, code_analysis,
                   layer_tasks, consensus_input, vresult, dstate,
                   now, start_time, times, returned>>

\* Steps 4 and 5: the Consensus validator runs on processed_results, the final
\* result is calculated, the counter is incremented and the result returned
consensus_returns ==
    /\ vpc = "consensus"
    /\ consensus_input' = processed_results
    /\ vresult' = consensus_and_final_result(processed_results, vcall.framework)
    /\ validation_count' = validation_count + 1
    /\ total_validation_time' = total_validation_time + processing_time(start_time.validation)
    /\ returned_validations' =
           Kept(returned_validations,
                ReturnedValidation(vcall.code_intent, vcall.framework, vcall.generated_code,
                    [l \in ParallelLayers |-> layer_tasks[l].outcome], vresult'))
    /\ vpc' = "returned"
    /\ UNCHANGED <<world, calls, detection_count, vcall, code_analysis, layer_tasks,
                   processed_results, dstate, now, start_time, total_detection_time,
                   results_kept, returned_detections>>

\* a variant of consensus_raises that counts the call and its time before it
\* re-raises
consensus_raises_counted ==
    /\ vpc = "consensus"
    /\ consensus_input' = processed_results
    /\ vpc' = "raised"
    /\ validation_count' = validation_count + 1
    /\ total_validation_time' = total_validation_time + processing_time(start_time.validation)
    /\ UNCHANGED <<world, calls, detection_count, vcall, code_analysis, layer_tasks,
                   processed_results, vresult, dstate, now, start_time,
                   total_detection_time, returned>>

\* Step 4 when the Consensus validator raises: the except clause of
\* validate_code_generation logs and re-raises
consensus_raises ==
    /\ vpc = "consensus"
    /\ consensus_input' = processed_results
    /\ vpc' = "raised"
    /\ UNCHANGED <<world, calls, validation_count, detection_count, vcall, code_analysis,
                   layer_tasks, processed_results, vresult, dstate,
                   now, start_time, times, returned>>

\* code_intent or "code validation"
IntentOrDefault(code_intent) == IF code_intent = "" THEN "code validation" ELSE code_intent

\* detect_hallucination is called: Step 1 (the results of the caller's earlier
\* calls are dropped)
detect_hallucination(generated_code, frameworks, code_intent) ==
    /\ NoCallInProgress
    /\ calls' = calls + 1
    /\ dpc' = "validating"
    /\ dcall' = [generated_code |-> generated_code, frameworks |-> frameworks,
                 code_intent |-> code_intent]
    /\ dindex' = 1
    /\ validation_results' = <<>>
    /\ hallucinations' = <<>>
    /\ confidence_score' = 0
    /\ dresult' = NoHallucinationResult
    /\ VDropped
    /\ start_time' = [start_time EXCEPT !.detection = now]
    /\ UNCHANGED <<world, counters, now, times, returned>>

\* Step 2, one turn of the loop: validate_code_generation for the next framework
\* returns
detect_validates(outcomes) ==
    /\ dpc = "validating"
    /\ dindex <= Len(dcall.frameworks)
    /\ LET framework == dcall.frameworks[dindex]
           validation == validate_code_generation_result(graphiti_engine, rag_system,
                             memory_bank, IntentOrDefault(dcall.code_intent), framework,
                             dcall.generated_code, outcomes)
       IN /\ validation_results' =
                 [f \in DOMAIN validation_results \cup {framework} |->
                     IF f = framework THEN validation ELSE validation_results[f]]
          /\ returned_validations' =
                 Kept(returned_validations,
                      ReturnedValidation(IntentOrDefault(dcall.code_intent), framework,
                          dcall.generated_code, outcomes, validation))
    /\ validation_count' = validation_count + 1
    /\ total_validation_time' = total_validation_time + processing_time(now)
    /\ dindex' = dindex + 1
    /\ graphiti_engine' =
           Followed(EngineAfterValidation(graphiti_engine, outcomes), graphiti_engine)
    /\ rag_system' =
           Followed(RagAfterValidation(rag_system, dcall.generated_code, outcomes),
                    rag_system)
    /\ UNCHANGED <<memory_bank, statements, confidence_threshold, calls, detection_count,
                   vstate, dpc, dcall, hallucinations, confidence_score, dresult, now,
                   start_time, total_detection_time, results_kept, returned_detections>>

\* Step 2 when validate_code_generation raises (its Consensus validator raised):
\* the except clause of detect_hallucination logs and re-raises
detect_validation_raises ==
    /\ dpc = "validating"
    /\ dindex <= Len(dcall.frameworks)
    /\ dpc' = "raised"
    /\ UNCHANGED <<world, calls, validation_count, detection_count, vstate, dcall, dindex,
                   validation_results, hallucinations, confidence_score, dresult,
                   now, start_time, times, returned>>

\* Steps 3 to 7: the three detections and the confidence score
detect_scores ==
    /\ dpc = "validating"
    /\ dindex > Len(dcall.frameworks)
    /\ hallucinations' =
           all_hallucinations(rag_system, graphiti_engine, dcall.generated_code,
               detector_analyze_code_structure(dcall.generated_code), dcall.frameworks)
    /\ confidence_score' = calculate_confidence_score(validation_results, hallucinations')
    /\ dpc' = "scored"
    /\ rag_system' =
           Followed(searches_counted(rag_system,
                        Len(dcall.frameworks)
                            * Len(detector_analyze_code_structure(dcall.generated_code)
                                      .api_calls)),
                    rag_system)
    /\ UNCHANGED <<graphiti_engine, memory_bank, statements, confidence_threshold, calls,
                   validation_count, detection_count, vstate, dcall, dindex,
                   validation_results, dresult, now, start_time, times, returned>>

\* Step 4 when query_failed_patterns raises (the Knowledge Store does not
\* answer): _detect_pattern_hallucinations awaits it for the first framework
\* outside any try, and the except clause of detect_hallucination logs and
\* re-raises
detect_patterns_raise ==
    /\ dpc = "validating"
    /\ dindex > Len(dcall.frameworks)
    /\ dcall.frameworks # <<>>
    /\ dpc' = "raised"
    /\ UNCHANGED <<world, calls, validation_count, detection_count, vstate, dcall, dindex,
                   validation_results, hallucinations, confidence_score, dresult,
                   now, start_time, times, returned>>

\* a variant of is_hallucination that does not look at the score
is_hallucination_any_finding(all, score) == Len(all) > 0

\* a variant of corrections_generated that does not look at the score
corrections_generated_for_any_finding(all, score) == Len(all) > 0

\* the condition of Step 8: `if all_hallucinations and confidence_score <
\* self.hallucination_threshold`
corrections_generated(all, score) == all # <<>> /\ score < hallucination_threshold

\* is_hallucination of the HallucinationResult, the same condition written again
is_hallucination(all, score) == Len(all) > 0 /\ score < hallucination_threshold

\* the HallucinationResult of detect_hallucination
HallucinationResult(all, score, corrected_code, correction_suggestions, results) ==
    [is_hallucination |-> is_hallucination(all, score),
     confidence_score |-> score,
     detected_hallucinations |-> all,
     corrected_code |-> corrected_code,
     correction_suggestions |-> correction_suggestions,
     validation_breakdown |->
         [f \in DOMAIN results |->
             [consensus_score |-> results[f].consensus_score,
              issues |-> Len(results[f].overall_issues)]]]

\* the corrected code needs the validation of _generate_corrections
CorrectionValidated ==
    /\ corrections_generated(hallucinations, confidence_score)
    /\ corrections(dcall.generated_code, hallucinations).corrected_code
           # dcall.generated_code

\* Step 8 and the return: the corrections (with the validation of the corrected
\* code, when it differs), the result, the counter
detect_returns(outcomes) ==
    /\ dpc = "scored"
    /\ LET flagged == corrections_generated(hallucinations, confidence_score)
           applied == corrections(dcall.generated_code, hallucinations)
           validation == validate_code_generation_result(graphiti_engine, rag_system,
                             memory_bank, "corrected code validation",
                             correction_framework(dcall.frameworks),
                             applied.corrected_code, outcomes)
       IN /\ dresult' = HallucinationResult(hallucinations, confidence_score,
                 IF flagged
                 THEN generate_corrections(dcall.generated_code, hallucinations,
                                           validation.consensus_score)
                 ELSE NoCode,
                 IF flagged THEN applied.correction_suggestions ELSE <<>>,
                 validation_results)
          /\ returned_validations' =
                 IF CorrectionValidated
                 THEN Kept(returned_validations,
                           ReturnedValidation("corrected code validation",
                               correction_framework(dcall.frameworks),
                               applied.corrected_code, outcomes, validation))
                 ELSE returned_validations
    /\ validation_count' = validation_count + (IF CorrectionValidated THEN 1 ELSE 0)
    /\ total_validation_time' = total_validation_time + processing_time(now)
    /\ detection_count' = detection_count + 1
    /\ total_detection_time' = total_detection_time + processing_time(start_time.detection)
    /\ returned_detections' = Kept(returned_detections, dcall)
    /\ dpc' = "returned"
    /\ graphiti_engine' =
           IF CorrectionValidated
           THEN Followed(EngineAfterValidation(graphiti_engine, outcomes), graphiti_engine)
           ELSE graphiti_engine
    /\ rag_system' =
           IF CorrectionValidated
           THEN Followed(RagAfterValidation(rag_system,
                             corrections(dcall.generated_code, hallucinations)
                                 .corrected_code,
                             outcomes),
                         rag_system)
           ELSE rag_system
    /\ UNCHANGED <<memory_bank, statements, confidence_threshold, calls, vstate, dcall,
                   dindex, validation_results, hallucinations, confidence_score, now,
                   start_time, results_kept>>

\* the number of statements the sessions of the driver are given
MaxStatements == 4

\* the success rates patterns are stored with
StoredRates == {0, 500, 900, One}

\* the template of the pattern that store_pattern stores in the model
StoredTemplate == << <<"Agent", "run">>, <<"pattern">> >>

\* AIDGraphitiEngine.store_pattern: the pattern is created with the given
\* success_rate and usage_count 0; its id is new
store_pattern(pattern_name, success_rate) ==
    /\ Len(statements) < MaxStatements
    /\ \A i \in 1..Len(graphiti_engine.patterns) :
          graphiti_engine.patterns[i].name # pattern_name
    /\ graphiti_engine' =
           [graphiti_engine EXCEPT !.patterns =
               Append(@, Pattern(pattern_name, "PydanticAI", "success", StoredTemplate,
                                 success_rate, 0, 0))]
    /\ statements' = Append(statements,
           [query |-> "store_pattern", pattern_id |-> pattern_name,
            success_rate |-> success_rate, success |-> TRUE, state |-> "returned",
            record |-> [present |-> TRUE, value |-> 0]])
    /\ UNCHANGED <<rag_system, memory_bank, confidence_threshold, calls, counters, vstate,
                   dstate, now, start_time, times, returned>>

\* AIDGraphitiEngine.update_pattern_usage up to `await session.run(query, ...)`:
\* the statement is with the store, and other calls may run
update_pattern_usage(pattern_id, success) ==
    /\ Len(statements) < MaxStatements
    /\ statements' = Append(statements,
           [query |-> "update_pattern_usage", pattern_id |-> pattern_id,
            success_rate |-> 0, success |-> success, state |-> "sent",
            record |-> [present |-> FALSE, value |-> 0]])
    /\ UNCHANGED <<graphiti_engine, rag_system, memory_bank, confidence_threshold, calls,
                   counters, vstate, dstate, now, start_time, times, returned>>

\* the store runs the statement of an update_pattern_usage call and the call
\* returns new_success_rate, or None when no pattern has the id
pattern_usage_updated(i) ==
    /\ i \in 1..Len(statements)
    /\ statements[i].state = "sent"
    /\ LET updated == RunUpdatePatternUsage(graphiti_engine, statements[i].pattern_id,
                                            statements[i].success)
           matched == {j \in 1..Len(updated.patterns) :
                          updated.patterns[j].name = statements[i].pattern_id}
       IN /\ graphiti_engine' = updated
          /\ statements' =
                 [statements EXCEPT ![i].state = "returned",
                      ![i].record =
                          IF matched = {} THEN [present |-> FALSE, value |-> 0]
                          ELSE [present |-> TRUE,
                                value |-> updated.patterns[CHOOSE j \in matched : TRUE]
                                              .success_rate]]
    /\ UNCHANGED <<rag_system, memory_bank, confidence_threshold, calls, counters, vstate,
                   dstate, now, start_time, times, returned>>


\* Step 8 when the validation of the corrected code raises
detect_correction_raises ==
    /\ dpc = "scored"
    /\ CorrectionValidated
    /\ dpc' = "raised"
    /\ UNCHANGED <<world, calls, validation_count, detection_count, vstate, dcall, dindex,
                   validation_results, hallucinations, confidence_score, dresult,
                   now, start_time, times, returned>>

Next ==
    \/ \E code_intent \in {"intent"}, framework \in Frameworks,
          generated_code \in ValidatedCodes :
          validate_code_generation(code_intent, framework, generated_code)
    \/ \E layer \in ParallelLayers, outcome \in Outcomes : layer_task_ends(layer, outcome)
    \/ \E layer \in ParallelLayers : layer_task_blocks(layer)
    \/ gather_done
    \/ consensus_returns
    \/ consensus_raises
    \/ \E generated_code \in Codes, frameworks \in FrameworkLists,
          code_intent \in {"", "intent"} :
          detect_hallucination(generated_code, frameworks, code_intent)
    \/ \E outcomes \in NestedOutcomes : detect_validates(outcomes)
    \/ detect_validation_raises
    \/ detect_scores
    \/ detect_patterns_raise
    \/ \E outcomes \in NestedOutcomes : detect_returns(outcomes)
    \/ detect_correction_raises

Spec == Init /\ [][Next]_vars

\* The calls of a caller that only validates, one piece of code against one
\* framework: the steps of validate_code_generation, for the properties of its
\* progress.
ValidationNext ==
    \/ \E generated_code \in {<<>>, CodeG} :
          validate_code_generation("intent", "PydanticAI", generated_code)
    \/ \E layer \in ParallelLayers, outcome \in Outcomes : layer_task_ends(layer, outcome)
    \/ \E layer \in ParallelLayers : layer_task_blocks(layer)
    \/ gather_done
    \/ consensus_returns
    \/ consensus_raises

\* The event loop runs every task that can run: a task of a layer that is not
\* suspended in a call runs to its end, gather returns once every task has ended,
\* and the engine goes on with the steps that follow an await that returned.
Fairness ==
    /\ \A layer \in ParallelLayers :
          WF_vars(\E outcome \in Outcomes : layer_task_ends(layer, outcome))
    /\ WF_vars(gather_done)
    /\ WF_vars(consensus_raises \/ consensus_returns)

FairSpec == Init /\ [][ValidationNext]_vars /\ Fairness

\* The tasks of a caller that keeps the two engines for several calls and runs
\* them concurrently (asyncio.gather of validation_task(i) and
\* hallucination_task(i)): a validate_code_generation call and a
\* detect_hallucination call may be in flight at the same time, on the same
\* engines, and the clock runs.

\* the number of tasks of the caller
MaxTasks == 2
\* the number of ticks of the clock
MaxTime == 1

\* a task of the caller calls validate_code_generation; a detect_hallucination
\* call of another task may be in flight
validation_task(code_intent, framework, generated_code) ==
    /\ vpc \in {"idle", "returned", "raised"}
    /\ calls < MaxTasks
    /\ calls' = calls + 1
    /\ vpc' = "gather"
    /\ vcall' = [code_intent |-> code_intent, framework |-> framework,
                 generated_code |-> generated_code]
    /\ code_analysis' = Step1Analysis(generated_code)
    /\ layer_tasks' = [l \in ParallelLayers |-> PendingTask(l)]
    /\ processed_results' = <<>>
    /\ consensus_input' = <<>>
    /\ vresult' = NoValidationResult
    /\ start_time' = [start_time EXCEPT !.validation = now]
    /\ UNCHANGED <<world, counters, dstate, now, times, returned>>

\* a task of the caller calls detect_hallucination; a validate_code_generation
\* call of another task may be in flight
hallucination_task(generated_code, frameworks, code_intent) ==
    /\ dpc \in {"idle", "returned", "raised"}
    /\ calls < MaxTasks
    /\ calls' = calls + 1
    /\ dpc' = "validating"
    /\ dcall' = [generated_code |-> generated_code, frameworks |-> frameworks,
                 code_intent |-> code_intent]
    /\ dindex' = 1
    /\ validation_results' = <<>>
    /\ hallucinations' = <<>>
    /\ confidence_score' = 0
    /\ dresult' = NoHallucinationResult
    /\ start_time' = [start_time EXCEPT !.detection = now]
    /\ UNCHANGED <<world, counters, vstate, now, times, returned>>

\* the clock advances while a call is in flight (the time between the calls is
\* in no processing_time)
tick ==
    /\ vpc \in {"gather", "consensus"} \/ dpc \in {"validating", "scored"}
    /\ now < MaxTime
    /\ now' = now + 1
    /\ UNCHANGED <<world, calls, counters, vstate, dstate, start_time, times, returned>>

\* the tasks of the layers before a layer, in the order of ValidationLayer,
\* have ended
EarlierLayersEnded(layer) ==
    \A i, j \in 1..Len(ValidationLayer) :
        (i < j /\ ValidationLayer[j] = layer /\ ValidationLayer[i] \in ParallelLayers) =>
            layer_tasks[ValidationLayer[i]].state # "pending"

\* two tasks of a caller, one that validates and one that detects, interleaved
\* at every await.  The validators of a validation return, or its Structural
\* validator raises (as in the validations that detect_hallucination awaits);
\* the tasks of the layers end in the order of the layers (every order is a
\* behaviour of Spec)
TaskNext ==
    \/ validation_task("intent", "PydanticAI", CodeA)
    \/ \E layer \in ParallelLayers, outcome \in {"ok", "raise"} :
          /\ outcome = "raise" => layer = LAYER_STRUCTURAL
          /\ EarlierLayersEnded(layer)
          /\ layer_task_ends(layer, outcome)
    \/ gather_done
    \/ consensus_returns
    \/ consensus_raises
    \/ hallucination_task(CodeA, <<"PydanticAI">>, "intent")
    \/ \E outcomes \in NestedOutcomes : detect_validates(outcomes)
    \/ detect_validation_raises
    \/ detect_scores
    \/ detect_patterns_raise
    \/ \E outcomes \in NestedOutcomes : detect_returns(outcomes)
    \/ detect_correction_raises
    \/ tick

\* the engines with the default threshold and a caller that keeps the results
TaskInit == Constructed(default_confidence_threshold, TRUE)

TaskSpec == TaskInit /\ [][TaskNext]_vars

\* The tasks of a caller that validates one after the other, the same code or
\* another, with the knowledge as it is: the five validators of a validation end
\* in any order, and at most one of them raises.
RepeatNext ==
    \/ \E generated_code \in {<<>>, CodeA, CodeF} :
          validation_task("intent", "PydanticAI", generated_code)
    \/ \E layer \in ParallelLayers, outcome \in {"ok", "raise"} :
          /\ outcome = "raise" => \A l \in ParallelLayers : layer_tasks[l].outcome # "raise"
          /\ layer_task_ends(layer, outcome)
    \/ gather_done
    \/ consensus_returns
    \/ consensus_raises

RepeatSpec == TaskInit /\ [][RepeatNext]_vars

\* the values of confidence_threshold that the validation engine is
\* constructed with: the default and one below 0.5
Thresholds == {default_confidence_threshold, 40000}

\* the engines constructed with one of the thresholds
ConfiguredInit == \E threshold \in Thresholds : Constructed(threshold, TRUE)

\* repeated validations by an engine constructed with one of the thresholds
ConfiguredSpec == ConfiguredInit /\ [][RepeatNext]_vars

\* the confidences of the layer results that the Consensus validator is given
\* in ConsensusSpec: the least and the greatest a layer gives, the neutral 0.8,
\* and the floor and the cap of the Temporal layer
GivenConfidences == {0, 200, 800, 950, One}

\* a layer result with a given confidence: the one of a failed layer for 0,
\* one without issue otherwise; with_critical adds the critical issue of a
\* call site that did not resolve
GivenResult(layer, confidence, with_critical) ==
    IF confidence = 0 /\ ~with_critical THEN validation_error(layer)
    ELSE LayerValidationResult(layer, confidence,
             IF with_critical
             THEN <<ValidationIssue(layer, "critical", "non_existent_api")>>
             ELSE <<>>,
             <<>>, FALSE)

\* a validate_code_generation call whose five tasks have ended with results of
\* the given confidences, the Structural one with a critical issue or without
ConsensusInit ==
    /\ graphiti_engine = GoodWorld.engine
    /\ rag_system = GoodWorld.rag
    /\ memory_bank = GoodWorld.memory
    /\ statements = <<>>
    /\ confidence_threshold = default_confidence_threshold
    /\ calls = 1
    /\ validation_count = 0
    /\ detection_count = 0
    /\ vpc = "gather"
    /\ vcall = [code_intent |-> "intent", framework |-> "PydanticAI",
                generated_code |-> CodeA]
    /\ code_analysis = Step1Analysis(CodeA)
    /\ \E confidences \in [ParallelLayers -> GivenConfidences], with_critical \in BOOLEAN :
          layer_tasks = [l \in ParallelLayers |->
                           Task("result", "ok",
                                GivenResult(l, confidences[l],
                                            with_critical /\ l = LAYER_STRUCTURAL))]
    /\ processed_results = <<>>
    /\ consensus_input = <<>>
    /\ vresult = NoValidationResult
    /\ DIdle
    /\ now = 0
    /\ start_time = [validation |-> 0, detection |-> 0]
    /\ total_validation_time = 0
    /\ total_detection_time = 0
    /\ results_kept = FALSE
    /\ returned_validations = EmptyBag
    /\ returned_detections = EmptyBag

\* Steps 3 to 5 of the call
ConsensusNext ==
    \/ gather_done
    \/ consensus_returns
    \/ consensus_raises

\* the Consensus validator and the final result over given layer results
ConsensusSpec == ConsensusInit /\ [][ConsensusNext]_vars


\* the patterns that the Knowledge Store holds in TemporalSpec are drawn from
\* these: three successful ones, two of them with one template, and four
\* failed ones with that template
SuccessAgain ==
    Pattern("AgentRunSyncAgain", "PydanticAI", "success",
            << <<"Agent", "run_sync">>, <<"pattern">> >>, 900, 20, 10)
SuccessRun ==
    Pattern("AgentRun", "PydanticAI", "success",
            << <<"Agent", "run">>, <<"pattern">> >>, 850, 5, 10)
FailedRunSync(name) ==
    Pattern(name, "PydanticAI", "failure",
            << <<"Agent", "run_sync">>, <<"pattern">> >>, 100, 2, 10)
PatternPool ==
    <<SuccessPattern, SuccessAgain, SuccessRun, FailedRunSync("FailedA"),
      FailedRunSync("FailedB"), FailedRunSync("FailedC"), FailedRunSync("FailedD")>>

\* the patterns of the pool at the given places, in the order of the pool
Drawn(places) ==
    LET F[i \in 0..Len(PatternPool)] ==
            IF i = 0 THEN <<>>
            ELSE IF i \in places THEN Append(F[i - 1], PatternPool[i]) ELSE F[i - 1]
    IN F[Len(PatternPool)]

\* the codes of TemporalSpec: none, one that does not parse, and codes with
\* one and with two call sites
CodeOneCall == <<Stmt("call", "Agent", "run_sync")>>
CodeTwoCalls == <<Stmt("call", "Agent", "run_sync"), Stmt("call", "Agent", "run")>>
TemporalCodes == {<<>>, CodeD, CodeOneCall, CodeTwoCalls}

\* the engines constructed over a Knowledge Store with drawn patterns
TemporalInit ==
    \E places \in SUBSET (1..Len(PatternPool)) :
        ConstructedOver([GoodWorld EXCEPT !.engine.patterns = Drawn(places)],
                        default_confidence_threshold, FALSE)

\* a validation of one of the codes, up to the end of its Temporal task
TemporalNext ==
    \/ \E generated_code \in TemporalCodes :
          validation_task("intent", "PydanticAI", generated_code)
    \/ layer_task_ends(LAYER_TEMPORAL, "ok")

\* the Temporal validator over drawn patterns and codes
TemporalSpec == TemporalInit /\ [][TemporalNext]_vars


\* a Knowledge Store without patterns, one that applies the items of a SET
\* clause in order or one that does not
PatternInit ==
    \E in_order \in BOOLEAN :
        ConstructedOver([GoodWorld EXCEPT !.engine.patterns = <<>>,
                                          !.engine.set_items_in_order = in_order],
                        default_confidence_threshold, FALSE)

\* a pattern is stored, and calls of update_pattern_usage run concurrently on
\* it and on an id the store does not hold
PatternNext ==
    \/ \E success_rate \in StoredRates : store_pattern("Stored", success_rate)
    \/ \E pattern_id \in {"Stored", "Unknown"}, success \in BOOLEAN :
          update_pattern_usage(pattern_id, success)
    \/ \E i \in 1..MaxStatements : pattern_usage_updated(i)

\* the patterns of the Knowledge Store under concurrent updates of their usage
PatternSpec == PatternInit /\ [][PatternNext]_vars


\* the number of statements the writers of FrameSpec give to the store
MaxWrites == 2

\* a validation or a detection of a code with two call sites, while a pattern
\* is stored and the usage of the patterns is updated
FrameNext ==
    \/ validate_code_generation("intent", "PydanticAI", CodeTwoCalls)
    \/ \E layer \in ParallelLayers : layer_task_ends(layer, "ok")
    \/ gather_done
    \/ consensus_returns
    \/ detect_hallucination(CodeTwoCalls, <<"PydanticAI">>, "intent")
    \/ \E outcomes \in NestedOutcomes : detect_validates(outcomes)
    \/ detect_scores
    \/ \E outcomes \in NestedOutcomes : detect_returns(outcomes)
    \/ Len(statements) < MaxWrites /\ store_pattern("Stored", 900)
    \/ Len(statements) < MaxWrites /\ update_pattern_usage("Stored", FALSE)
    \/ \E i \in 1..MaxWrites : pattern_usage_updated(i)

\* the two engines next to the writers of the Knowledge Store, with the
\* statistics of the collaborators followed
FrameSpec == TaskInit /\ [][FrameNext]_vars


\* the engines over a Knowledge Store that is unavailable: opening a session
\* or running a query raises
UnavailableInit ==
    ConstructedOver([GoodWorld EXCEPT !.engine.available = FALSE],
                    default_confidence_threshold, FALSE)

\* validations over the unavailable Knowledge Store: the queries of the
\* Temporal validator raise, the Structural validator catches what its
\* lookups raise
UnavailableNext ==
    \/ \E framework \in Frameworks, generated_code \in {<<>>, CodeA, CodeF, CodeG} :
          validate_code_generation("intent", framework, generated_code)
    \/ \E layer \in ParallelLayers \ {LAYER_TEMPORAL} : layer_task_ends(layer, "ok")
    \/ layer_task_ends(LAYER_TEMPORAL, "raise")
    \/ gather_done
    \/ consensus_returns

\* validate_code_generation while the Knowledge Store is unavailable
UnavailableSpec == UnavailableInit /\ [][UnavailableNext]_vars


-----------------------------------------------------------------------------
(* The multi-layer validation engine: properties *)

\* the ValidationResults of the state: the one a caller's validate_code_generation
\* returned and the ones detect_hallucination holds for its frameworks
ReturnedValidations ==
    (IF vpc = "returned" THEN {vresult} ELSE {})
    \cup {validation_results[f] : f \in DOMAIN validation_results}

\* the outcomes of the five tasks of the validate_code_generation call in progress
TaskOutcomes == {layer_tasks[l].outcome : l \in ParallelLayers}

\* the consensus_score of a result is the weighted sum with the weights of the
\* specification, 0.25, 0.20, 0.20, 0.15, 0.15 and 0.05
IsWeightedSum(result) ==
    LET c(layer) == result.layer_results[layer].confidence
    IN result.consensus_score =
           25 * c(LAYER_STRUCTURAL) + 20 * c(LAYER_TEMPORAL) + 20 * c(LAYER_DOCUMENTATION)
           + 15 * c(LAYER_MEMORY) + 15 * c(LAYER_TYPE_SAFETY) + 5 * c(LAYER_CONSENSUS)

\* C1: the consensus_score of every result validate_code_generation returns is
\* 0.25*structural + 0.20*temporal + 0.20*documentation + 0.15*memory
\* + 0.15*type_safety + 0.05*consensus of the confidences of its six layers, and
\* _calculate_consensus_score of the same six layer results is the same value.
C1_ConsensusScoreIsWeightedSum ==
    \A result \in ReturnedValidations :
        /\ IsWeightedSum(result)
        /\ calculate_consensus_score(result.layer_results) = result.consensus_score

\* a returned result whose structural and temporal confidences differ, with one
\* layer failed closed
C1_Witness ==
    /\ vpc = "returned"
    /\ vresult.layer_results[LAYER_STRUCTURAL].confidence
          > vresult.layer_results[LAYER_TEMPORAL].confidence
    /\ vresult.layer_results[LAYER_MEMORY].confidence = 0
    /\ vresult.consensus_score > 0

\* C2: the six weights sum to 1.0, and in every result validate_code_generation
\* returns each layer confidence and the consensus_score are in [0, 1] (the
\* collaborators return confidences in [0, 1]; any subset of the layers may have
\* failed closed).
C2_WeightsAndScoresInUnitInterval ==
    /\ SetSum(layer_weights, DOMAIN layer_weights) = WeightOne
    /\ DOMAIN layer_weights = Layers
    /\ \A result \in ReturnedValidations :
          /\ \A layer \in DOMAIN result.layer_results :
                result.layer_results[layer].confidence \in 0..One
          /\ result.consensus_score \in 0..ScoreOne

\* a returned result with a layer at confidence 1.0, a layer failed closed and
\* the documentation layer averaged over a search confidence of 1.0 and calls that
\* are all valid
C2_Witness ==
    /\ vpc = "returned"
    /\ "raise" \in TaskOutcomes
    /\ layer_tasks[LAYER_DOCUMENTATION].outcome = "ok"
    /\ code_analysis.present /\ code_analysis.api_calls # <<>>
    /\ vresult.layer_results[LAYER_DOCUMENTATION].confidence = One
    /\ vresult.consensus_score > 0

\* a layer result that failed closed
FailedClosed(result) ==
    /\ result.confidence = 0
    /\ result.validated_items = <<>>
    /\ Len(result.issues) = 1
    /\ result.issues[1].severity = "critical"
    /\ result.issues[1].issue_type \in {"layer_failure", "validation_error"}

\* C3: for each of the five parallel validators, if its validate raises, the
\* layer result recorded for it (in processed_results and in the returned
\* ValidationResult) has confidence 0.0, no validated items and exactly one issue,
\* which is critical and of type layer_failure or validation_error.
C3_RaisingValidatorFailsClosed ==
    \A layer \in ParallelLayers :
        layer_tasks[layer].outcome \in {"raise", "escaped"} =>
            /\ layer_tasks[layer].state = "result" => FailedClosed(layer_tasks[layer].result)
            /\ vpc \in {"consensus", "returned", "raised"} =>
                  FailedClosed(processed_results[layer])
            /\ vpc = "returned" => FailedClosed(vresult.layer_results[layer])

\* a returned result of a run in which one validator raised inside
\* _run_validation_layer, the exception of another was listed by gather and a
\* third returned
C3_Witness ==
    /\ vpc = "returned"
    /\ TaskOutcomes = {"ok", "raise", "escaped"}
    /\ layer_tasks[LAYER_STRUCTURAL].outcome = "raise"
    /\ vresult.layer_results[LAYER_STRUCTURAL].issues[1].issue_type = "validation_error"

\* C4: a failure of any one of the six layers, the Consensus validator included,
\* never aborts validate_code_generation: the call does not raise, and the result
\* it returns has an entry for each of the six layers.
C4_LayerFailureNeverAborts ==
    /\ vpc # "raised"
    /\ vpc = "returned" => DOMAIN vresult.layer_results = Layers

\* the part of C4 about the five parallel layers: whatever subset of them raises,
\* the call reaches the Consensus validator, and a result that is returned has
\* the six layers
C4_ParallelLayerFailureNeverAborts ==
    /\ vpc = "raised" => consensus_input = processed_results /\ consensus_input # <<>>
    /\ vpc = "returned" => DOMAIN vresult.layer_results = Layers

\* C5: the Consensus validator starts only after all five parallel validators
\* have finished, and it is given exactly their five results (each the
\* validator's own result or the substitute for a failure), whatever the order
\* in which the five tasks end.
C5_ConsensusAfterAllFive ==
    /\ vpc \in {"consensus", "returned", "raised"} =>
          \A layer \in ParallelLayers : layer_tasks[layer].state \in {"result", "exception"}
    /\ consensus_input # <<>> =>
          /\ DOMAIN consensus_input = ParallelLayers
          /\ \A layer \in ParallelLayers :
                /\ layer_tasks[layer].state \in {"result", "exception"}
                /\ consensus_input[layer] =
                      IF layer_tasks[layer].state = "result"
                      THEN layer_tasks[layer].result
                      ELSE layer_failure(layer)

\* the Consensus validator has run on five results of which one is a validator's
\* own result and one the substitute for an exception
C5_Witness ==
    /\ vpc = "returned"
    /\ consensus_input # <<>>
    /\ layer_tasks[LAYER_STRUCTURAL].state = "exception"
    /\ layer_tasks[LAYER_TYPE_SAFETY].outcome = "ok"
    /\ consensus_input[LAYER_TYPE_SAFETY].confidence > 0

\* the task of a layer is suspended in a retrieval call that never returns
Blocked(layer) == vpc = "gather" /\ layer_tasks[layer].state = "blocked"

\* C6: if a retrieval call of one of the validators never returns,
\* validate_code_generation still returns in the end, with that layer degraded to
\* confidence 0.0 and a critical issue.
C6_BlockedRetrievalStillReturns ==
    \A layer \in RetrievalLayers :
        Blocked(layer) ~> (vpc = "returned" /\ FailedClosed(vresult.layer_results[layer]))

\* what the code gives instead: a call in which no retrieval call blocks comes
\* to its end (it returns, or raises when the Consensus validator raised)
C6_UnblockedCallEnds ==
    (vpc = "gather") ~> (vpc \in {"returned", "raised"} \/ \E layer \in RetrievalLayers : Blocked(layer))

\* every validator of a validation returns
AllOk == [l \in ParallelLayers |-> "ok"]

\* two returned validations had the same arguments, and the same validators of
\* them raised
SameRun(r1, r2) ==
    /\ r1.code_intent = r2.code_intent
    /\ r1.framework = r2.framework
    /\ r1.generated_code = r2.generated_code
    /\ r1.outcomes = r2.outcomes

KnowsAgentRunSync ==
    \E m \in graphiti_engine.kg :
        m.framework = "PydanticAI" /\ m.class = "Agent" /\ m.method = "run_sync"

\* C14: for the code agent = Agent("openai:gpt-4"); agent.run_sync("hi"), when
\* the Knowledge Store holds the class Agent with the method run_sync for the
\* framework, the Structural layer resolves every call site (confidence 1.0, no
\* critical issue) and detect_hallucination returns is_hallucination false.
C14_CorrectCodeIsResolved ==
    /\ (/\ vpc = "returned"
        /\ vcall.generated_code = CodeA /\ vcall.framework = "PydanticAI"
        /\ KnowsAgentRunSync
        /\ layer_tasks[LAYER_STRUCTURAL].outcome = "ok") =>
           /\ vresult.layer_results[LAYER_STRUCTURAL].confidence = One
           /\ \A i \in 1..Len(vresult.layer_results[LAYER_STRUCTURAL].issues) :
                 vresult.layer_results[LAYER_STRUCTURAL].issues[i].severity # "critical"
    /\ (/\ dpc = "returned"
        /\ dcall.generated_code = CodeA /\ dcall.frameworks = <<"PydanticAI">>
        /\ KnowsAgentRunSync
        /\ \A f \in DOMAIN validation_results, layer \in ParallelLayers :
              ~validation_results[f].layer_results[layer].error) =>
           ~dresult.is_hallucination

\* what the code gives instead: the Structural validator asks the Knowledge
\* Store for a class with the name of the receiver variable, agent, finds none,
\* and gives confidence 0.0 and a critical issue for the call
C14_ReceiverNameIsQueriedAsClass ==
    (/\ vpc = "returned"
     /\ vcall.generated_code = CodeA /\ vcall.framework = "PydanticAI"
     /\ layer_tasks[LAYER_STRUCTURAL].outcome = "ok") =>
        /\ vresult.layer_results[LAYER_STRUCTURAL].confidence = 0
        /\ Len(vresult.layer_results[LAYER_STRUCTURAL].issues) = 1
        /\ vresult.layer_results[LAYER_STRUCTURAL].issues[1].issue_type = "non_existent_api"

\* the empty code string and a code string that does not parse
EmptyOrUnparsable == {<<>>, CodeD}

\* the validations of the state that returned, each with its arguments: the one
\* of a caller and the ones detect_hallucination holds for its frameworks
ReturnedValidationCalls ==
    (IF vpc = "returned"
     THEN {[code_intent |-> vcall.code_intent, framework |-> vcall.framework,
            generated_code |-> vcall.generated_code, result |-> vresult]}
     ELSE {})
    \cup {[code_intent |-> IntentOrDefault(dcall.code_intent), framework |-> f,
           generated_code |-> dcall.generated_code, result |-> validation_results[f]] :
             f \in DOMAIN validation_results}

\* an analysis with all fields empty
AllFieldsEmpty(analysis) ==
    /\ analysis.imports = <<>> /\ analysis.classes = <<>> /\ analysis.api_calls = <<>>
    /\ analysis.frameworks = <<>> /\ analysis.patterns = <<>>

\* the result of a layer is the one it gives when there is no call site to
\* check: the neutral 0.8 without an issue for the Structural, the Temporal and
\* the Type-Safety layer, the confidence of the retrieval for the intent,
\* without an issue for a call site, for the Documentation and the Memory layer
NothingToCheck(layer, result, code_intent) ==
    CASE layer \in {LAYER_STRUCTURAL, LAYER_TEMPORAL, LAYER_TYPE_SAFETY} ->
             result.confidence = 800 /\ result.issues = <<>> /\ result.validated_items = <<>>
      [] layer = LAYER_DOCUMENTATION ->
             /\ result.confidence = rag_system.search_confidence[code_intent]
             /\ result.issues = <<>> /\ result.validated_items = <<>>
      [] layer = LAYER_MEMORY ->
             /\ result.confidence = memory_bank.confidence[code_intent]
             /\ \A i \in 1..Len(result.issues) : result.issues[i].issue_type = "memory_warning"

\* C15 as stated: for an empty code string or one that does not parse, code
\* analysis returns an analysis with all fields empty, and every validator of
\* the five parallel layers returns a neutral (0.8) or zero confidence, with
\* no issue for a call site.
C15_EveryValidatorNeutralOrZero ==
    /\ \A code \in EmptyOrUnparsable :
          AllFieldsEmpty(detector_analyze_code_structure(code))
    /\ \A call \in ReturnedValidationCalls :
          call.generated_code \in EmptyOrUnparsable =>
              \A layer \in ParallelLayers :
                  /\ call.result.layer_results[layer].confidence \in {0, 800}
                  /\ ~call.result.layer_results[layer].error =>
                        \A i \in 1..Len(call.result.layer_results[layer].issues) :
                            call.result.layer_results[layer].issues[i].issue_type
                                \notin {"non_existent_api", "undocumented_usage",
                                         "historically_failed_pattern"}

\* C15, amended: for an empty code string or one that does not parse, code
\* analysis returns an analysis with all fields empty instead of raising; the
\* Structural, the Temporal and the Type-Safety validator return the neutral
\* 0.8 without an issue, the Documentation and the Memory validator return the
\* confidence of their retrieval for the intent, whatever it is, without an
\* issue for a call site; and validate_code_generation and
\* detect_hallucination return a result.
C15_EmptyOrUnparsableCodeDegrades ==
    /\ \A code \in EmptyOrUnparsable :
          /\ AllFieldsEmpty(detector_analyze_code_structure(code))
          /\ code # <<>> => AllFieldsEmpty(analyze_code_structure(code))
    /\ (vpc # "idle" /\ vcall.generated_code \in EmptyOrUnparsable) =>
          (code_analysis.present => AllFieldsEmpty(code_analysis))
    /\ \A call \in ReturnedValidationCalls :
          call.generated_code \in EmptyOrUnparsable =>
              /\ DOMAIN call.result.layer_results = Layers
              /\ \A layer \in ParallelLayers :
                    ~call.result.layer_results[layer].error =>
                        NothingToCheck(layer, call.result.layer_results[layer],
                                       call.code_intent)
              /\ \A i \in 1..Len(call.result.overall_issues) :
                    call.result.overall_issues[i].issue_type
                        \notin {"non_existent_api", "undocumented_usage",
                                 "historically_failed_pattern"}
    /\ (dpc = "returned" /\ dcall.generated_code \in EmptyOrUnparsable) =>
          /\ DOMAIN dresult.validation_breakdown = Range(dcall.frameworks)
          /\ dresult.confidence_score \in 0..ScoreOne

\* detect_hallucination returned a result for a code string that does not
\* parse, with a validation in which Structural and Type-Safety gave 0.8
C15_Witness ==
    /\ dpc = "returned"
    /\ dcall.generated_code = CodeD
    /\ "PydanticAI" \in DOMAIN validation_results
    /\ validation_results["PydanticAI"].layer_results[LAYER_STRUCTURAL].confidence = 800
    /\ validation_results["PydanticAI"].layer_results[LAYER_TYPE_SAFETY].confidence = 800
    /\ dresult.validation_breakdown["PydanticAI"].consensus_score > 0

\* validate_code_generation returned a result for the empty code string
C15_EmptyCodeValidated ==
    /\ vpc = "returned"
    /\ vcall.generated_code = <<>>
    /\ TaskOutcomes = {"ok"}
    /\ vresult.layer_results[LAYER_STRUCTURAL].confidence = 800

\* the recommendations of _generate_recommendations that are about one layer
LayerSuggestions(layer) ==
    CASE layer = LAYER_STRUCTURAL -> {"verify API methods"}
      [] layer = LAYER_TEMPORAL -> {"use proven patterns"}
      [] layer = LAYER_DOCUMENTATION -> {"cross-reference documentation"}
      [] layer = LAYER_MEMORY -> {"review past decisions"}
      [] OTHER -> {}

\* the recommendations of a result have a suggestion about a layer
HasSuggestionFor(result, layer) ==
    Range(result.recommendations) \cap LayerSuggestions(layer) # {}

\* C17: in every ValidationResult, for each of the six layers, a confidence of
\* the layer below 0.8 comes with a suggestion about that layer in the
\* recommendations.
C17_LowLayerHasSuggestion ==
    \A call \in ReturnedValidationCalls :
        \A layer \in Layers :
            call.result.layer_results[layer].confidence < 800 =>
                HasSuggestionFor(call.result, layer)

\* what the code gives instead: a suggestion for the Structural, the Temporal,
\* the Documentation and the Memory layer exactly when the confidence of the
\* layer is below 0.8, and none about the Type-Safety or the Consensus layer
C17_FourLayersHaveSuggestions ==
    \A call \in ReturnedValidationCalls :
        \A layer \in Layers :
            HasSuggestionFor(call.result, layer)
                <=> /\ call.result.layer_results[layer].confidence < 800
                    /\ layer \in {LAYER_STRUCTURAL, LAYER_TEMPORAL,
                                  LAYER_DOCUMENTATION, LAYER_MEMORY}

\* a returned validation whose Type-Safety confidence is below 0.8
C17_LowTypeSafetyReturned ==
    \E call \in ReturnedValidationCalls :
        /\ call.result.layer_results[LAYER_TYPE_SAFETY].confidence < 800
        /\ ~call.result.layer_results[LAYER_TYPE_SAFETY].error

\* a result has a validated approach together with one of the recommendations
ApproachWith(result, recommendations) ==
    /\ result.validated_approach.present
    /\ Range(result.recommendations) \cap recommendations # {}

\* C18 as stated: in every ValidationResult, validated_approach is not None
\* exactly when consensus_score is at least the configured confidence threshold
\* (0.92 by default); no result has a validated approach together with the
\* "very low confidence" or the "moderate confidence" recommendation.
C18_ApproachIffThresholdReached ==
    \A call \in ReturnedValidationCalls :
        /\ call.result.validated_approach.present
              <=> call.result.consensus_score >= confidence_threshold
        /\ ~ApproachWith(call.result, {"very low confidence", "moderate confidence"})

\* C18, amended: in every ValidationResult, validated_approach is not None
\* exactly when consensus_score is at least the configured confidence
\* threshold; no result has a validated approach together with the "moderate
\* confidence" recommendation, and a result has one together with the "very
\* low confidence" recommendation exactly when its consensus_score is at least
\* the threshold and below 0.5, which takes a threshold configured below 0.5.
C18_ApproachAtOrAboveThreshold ==
    \A call \in ReturnedValidationCalls :
        /\ call.result.validated_approach.present
              <=> call.result.consensus_score >= confidence_threshold
        /\ ~ApproachWith(call.result, {"moderate confidence"})
        /\ ApproachWith(call.result, {"very low confidence"})
              <=> /\ call.result.consensus_score >= confidence_threshold
                  /\ call.result.consensus_score < 50000
        /\ ApproachWith(call.result, {"very low confidence"})
              => confidence_threshold < 50000

\* a validation of an engine with the default threshold returned a validated
\* approach, and one returned without it and with the "moderate confidence"
\* recommendation
C18_Witness ==
    /\ confidence_threshold = default_confidence_threshold
    /\ vpc = "returned"
    /\ vresult.validated_approach.present
    /\ vresult.consensus_score >= confidence_threshold
    /\ \E r \in BagToSet(returned_validations) :
          r.consensus_score \in 50000..(confidence_threshold - 1)

\* a validation of an engine with a threshold below 0.5 returned a validated
\* approach and the "very low confidence" recommendation
C18_ApproachWithVeryLowConfidence ==
    /\ vpc = "returned"
    /\ ApproachWith(vresult, {"very low confidence"})

\* k thousandths is the population standard deviation of the confidences,
\* rounded up to the next thousandth: k is the least number whose square is at
\* least the mean of the squared distances from the mean
IsStdDevOf(k, confidences) ==
    LET layers == DOMAIN confidences
        n == Cardinality(layers)
        mean_n == SetSum(confidences, layers)
        \* n * n times the variance
        distances == SetSum([l \in layers |->
                               (n * confidences[l] - mean_n) * (n * confidences[l] - mean_n)],
                            layers)
    IN /\ k >= 0
       /\ n * n * n * k * k >= distances
       /\ k > 0 => n * n * n * (k - 1) * (k - 1) < distances

\* the Consensus validator gave the result for the layer results it was given:
\* the confidence of the rule, the layer_disagreement issue exactly above 0.3,
\* the critical_consensus_failure issue exactly when a given layer has a
\* critical issue, and no other issue
IsConsensusOf(result, given) ==
    LET Has(severity, issue_type) ==
            \E i \in 1..Len(result.issues) :
                /\ result.issues[i].severity = severity
                /\ result.issues[i].issue_type = issue_type
        confidences == [l \in DOMAIN given |-> given[l].confidence]
        \* the s of a confidence above 0, which is 1 - s
        k == One - result.confidence
    IN /\ result.confidence \in 0..One
       /\ result.confidence > 0 => IsStdDevOf(k, confidences)
       /\ result.confidence = 0 => ~\E smaller \in 0..(One - 1) :
                                        IsStdDevOf(smaller, confidences)
       /\ Has("medium", "layer_disagreement") <=> k > 300
       /\ Has("critical", "critical_consensus_failure")
             <=> \E l \in DOMAIN given : \E i \in 1..Len(given[l].issues) :
                    given[l].issues[i].severity = "critical"
       /\ \A i \in 1..Len(result.issues) :
             result.issues[i].issue_type
                 \in {"layer_disagreement", "critical_consensus_failure"}
       /\ Len(result.issues) <= 2

\* C21: for the layer results given to the Consensus validator, its confidence
\* is max(0, 1 - s) with s the population standard deviation of the given
\* confidences; it has a medium layer_disagreement issue exactly when s > 0.3
\* and a critical critical_consensus_failure issue exactly when a given layer
\* has a critical issue.
C21_ConsensusIsOneMinusStdDev ==
    /\ vpc = "returned" =>
          /\ DOMAIN consensus_input = ParallelLayers
          /\ IsConsensusOf(vresult.layer_results[LAYER_CONSENSUS], consensus_input)
    /\ \A result \in ReturnedValidations :
          IsConsensusOf(result.layer_results[LAYER_CONSENSUS],
                        [l \in ParallelLayers |-> result.layer_results[l]])

\* the Consensus validator was given layer results that disagree by more than
\* 0.3 and have a critical issue, and returned both issues
C21_Witness ==
    /\ vpc = "returned"
    /\ Len(vresult.layer_results[LAYER_CONSENSUS].issues) = 2
    /\ vresult.layer_results[LAYER_CONSENSUS].confidence \in 1..699
    /\ \E l \in ParallelLayers : consensus_input[l].confidence > 0

\* the Consensus validator was given layer results that disagree by less than
\* 0.3, and not by nothing, and returned no issue
C21_AgreeingLayers ==
    /\ vpc = "returned"
    /\ vresult.layer_results[LAYER_CONSENSUS].issues = <<>>
    /\ vresult.layer_results[LAYER_CONSENSUS].confidence \in 701..999

\* the Consensus validator was given four layers at 0.95 and one at 0.2, whose
\* standard deviation is 0.3 and no more, and returned 0.7 without the
\* layer_disagreement issue
C21_StdDevOfThreeTenths ==
    /\ vpc = "returned"
    /\ vresult.layer_results[LAYER_CONSENSUS].confidence = 700
    /\ vresult.layer_results[LAYER_CONSENSUS].issues = <<>>

\* the call sites of the code analysis that a validation of the code is given
CallSites(generated_code) == Step1Analysis(generated_code).api_calls

\* C22: the Structural validator classifies each call site of the code
\* analysis as one validated item or one critical non_existent_api issue
\* (validated items + issues = number of call sites); its confidence is the
\* fraction of the call sites that resolved, and it is 0.8 with no issue when
\* there is no analysis or no call site.
C22_StructuralClassifiesEveryCallSite ==
    \A call \in ReturnedValidationCalls :
        LET result == call.result.layer_results[LAYER_STRUCTURAL]
            sites == Len(CallSites(call.generated_code))
        IN ~result.error =>
              /\ Len(result.validated_items) + Len(result.issues) = sites
              /\ \A i \in 1..Len(result.issues) :
                    /\ result.issues[i].severity = "critical"
                    /\ result.issues[i].issue_type = "non_existent_api"
              /\ \A i \in 1..Len(result.validated_items) :
                    \E j \in 1..sites : result.validated_items[i] = CallSites(call.generated_code)[j]
              /\ sites > 0 => /\ result.confidence * sites <= One * Len(result.validated_items)
                              /\ (result.confidence + 1) * sites
                                    > One * Len(result.validated_items)
              /\ sites = 0 => /\ result.confidence = 800
                              /\ result.issues = <<>>
                              /\ result.validated_items = <<>>

\* the Structural validator resolved one of the two call sites of a code and
\* gave confidence 0.5, one validated item and one issue
C22_Witness ==
    \E call \in ReturnedValidationCalls :
        LET result == call.result.layer_results[LAYER_STRUCTURAL]
        IN /\ Len(CallSites(call.generated_code)) = 2
           /\ Len(result.validated_items) = 1
           /\ Len(result.issues) = 1
           /\ result.confidence = 500

\* the result of the Temporal task of the validation in progress, when its
\* validator returned
TemporalReturned ==
    /\ vpc = "gather"
    /\ layer_tasks[LAYER_TEMPORAL].state = "result"
    /\ layer_tasks[LAYER_TEMPORAL].outcome = "ok"

\* C23: the confidence of the Temporal validator is 0.8 raised by 0.1 per
\* validated match and capped at 0.95, then lowered by 0.2 per
\* historically_failed_pattern issue and floored at 0.2, so it lies in
\* [0.2, 0.95]; a derived pattern gives at most one validated item; and the
\* confidence is 0.8 when there is no code analysis.
C23_TemporalConfidenceRule ==
    TemporalReturned =>
        LET result == layer_tasks[LAYER_TEMPORAL].result
            matches == Len(result.validated_items)
            failures == Len(result.issues)
            capped == IF 800 + 100 * matches > 950 THEN 950 ELSE 800 + 100 * matches
            lowered == capped - 200 * failures
        IN /\ \A i \in 1..failures :
                 /\ result.issues[i].issue_type = "historically_failed_pattern"
                 /\ result.issues[i].severity = "high"
           /\ result.confidence = IF failures > 0 /\ lowered < 200 THEN 200 ELSE lowered
           /\ result.confidence \in 200..950
           /\ code_analysis.present => matches <= Len(code_analysis.patterns)
           /\ ~code_analysis.present =>
                 /\ result.confidence = 800
                 /\ result.issues = <<>>
                 /\ result.validated_items = <<>>

\* the Temporal validator matched both derived patterns of a code, with two
\* successful patterns for one of them, and four failed patterns: two validated
\* items, the cap of 0.95, and then the floor of 0.2
C23_Witness ==
    /\ TemporalReturned
    /\ Len(code_analysis.patterns) = 2
    /\ Len(query_successful_patterns(graphiti_engine, "PydanticAI", 800, 180)) = 3
    /\ Len(layer_tasks[LAYER_TEMPORAL].result.validated_items) = 2
    /\ Len(layer_tasks[LAYER_TEMPORAL].result.issues) = 4
    /\ layer_tasks[LAYER_TEMPORAL].result.confidence = 200

\* the cap alone: two validated items and no issue give 0.95
C23_Capped ==
    /\ TemporalReturned
    /\ Len(layer_tasks[LAYER_TEMPORAL].result.validated_items) = 2
    /\ layer_tasks[LAYER_TEMPORAL].result.issues = <<>>
    /\ layer_tasks[LAYER_TEMPORAL].result.confidence = 950

\* the result the validator of a layer gives for the call in progress, over the
\* given collaborators
ResultOver(layer, engine, rag, memory) ==
    Validate(layer, engine, rag, memory, vcall.code_intent, vcall.framework, code_analysis)

\* C27: validate_code_generation and detect_hallucination only read the
\* patterns of the Knowledge Store: no step of theirs creates, deletes or
\* updates a pattern (usage_count and success_rate stay as they are); and the
\* five concurrent validators write no state that another validator reads: what
\* the task of one layer leaves behind changes the result of no other layer.
C27_ValidationOnlyReadsPatterns ==
    [][/\ (vstate' # vstate \/ dstate' # dstate) =>
              graphiti_engine'.patterns = graphiti_engine.patterns
       /\ \A layer \in ParallelLayers :
              (vpc = "gather" /\ layer_tasks'[layer] # layer_tasks[layer]) =>
                  \A other \in ParallelLayers \ {layer} :
                      ResultOver(other, graphiti_engine', rag_system', memory_bank')
                          = ResultOver(other, graphiti_engine, rag_system, memory_bank)]_vars

\* a validation returned whose Temporal and Documentation validators have
\* written their counters, while a pattern was stored and the usage of another
\* updated
C27_Witness ==
    /\ vpc = "returned"
    /\ graphiti_engine.query_count = 1
    /\ rag_system.search_count = 3
    /\ Len(graphiti_engine.patterns) = 2
    /\ graphiti_engine.patterns[2].usage_count = 1
    /\ \A i \in 1..Len(statements) : statements[i].state = "returned"

\* a detection returned, with its validations, next to the same writers
C27_DetectionReturned ==
    /\ dpc = "returned"
    /\ graphiti_engine.query_count >= 1
    /\ rag_system.search_count >= 5
    /\ Len(graphiti_engine.patterns) = 2
    /\ graphiti_engine.patterns[2].usage_count = 1

\* the store of a pattern changed what the Temporal validator returns for the
\* call in progress
C27_WriterChangesTemporalResult ==
    /\ vpc = "gather"
    /\ layer_tasks[LAYER_TEMPORAL].state = "result"
    /\ layer_tasks[LAYER_TEMPORAL].result.confidence
           # ResultOver(LAYER_TEMPORAL, graphiti_engine, rag_system, memory_bank).confidence

\* the Structural validator of the validation in progress has returned, after
\* lookups of call sites in a Knowledge Store that is unavailable
LookupsInUnavailableStore ==
    /\ vpc = "gather"
    /\ ~graphiti_engine.available
    /\ code_analysis.present
    /\ code_analysis.api_calls # <<>>
    /\ layer_tasks[LAYER_STRUCTURAL].state = "result"

\* C28: when the Knowledge Store is unavailable during a Structural lookup, the
\* Structural layer is degraded to zero like a failed layer: its confidence is
\* 0.0 and it has a critical issue of type layer_failure or validation_error,
\* with the error in its metadata; it does not report the call sites as
\* non_existent_api.
C28_UnavailableStoreDegradesStructural ==
    LookupsInUnavailableStore =>
        LET result == layer_tasks[LAYER_STRUCTURAL].result
        IN /\ result.confidence = 0
           /\ result.error
           /\ \E i \in 1..Len(result.issues) :
                 /\ result.issues[i].severity = "critical"
                 /\ result.issues[i].issue_type \in {"layer_failure", "validation_error"}
           /\ \A i \in 1..Len(result.issues) :
                 result.issues[i].issue_type # "non_existent_api"

\* what the code gives: every call site is reported as a critical
\* non_existent_api issue, the confidence is 0.0 as none resolved, and the
\* result has no error
C28_UnavailableStoreReportsMissingApis ==
    LookupsInUnavailableStore =>
        LET result == layer_tasks[LAYER_STRUCTURAL].result
        IN /\ result.confidence = 0
           /\ ~result.error
           /\ result.validated_items = <<>>
           /\ Len(result.issues) = Len(code_analysis.api_calls)
           /\ \A i \in 1..Len(result.issues) :
                 /\ result.issues[i].severity = "critical"
                 /\ result.issues[i].issue_type = "non_existent_api"

\* the Structural validator returned for a code whose call sites the Knowledge
\* Store holds, while the store was unavailable
C28_KnownCallReportedMissing ==
    /\ LookupsInUnavailableStore
    /\ vcall.generated_code = CodeA
    /\ Len(layer_tasks[LAYER_STRUCTURAL].result.issues) >= 1

\* the five parallel layers of the returned result failed closed: confidence
\* 0.0 and an error
AllFiveFailedClosed ==
    \A l \in ParallelLayers :
        /\ vresult.layer_results[l].confidence = 0
        /\ vresult.layer_results[l].error

\* C30: when the five parallel layers report the same confidence, the
\* confidence of the Consensus layer is exactly 1.0; in particular when all
\* five failed closed (0.0 each) the Consensus layer reports 1.0 and a critical
\* critical_consensus_failure issue, and the consensus_score is exactly 0.05.
C30_AgreementGivesFullConsensus ==
    vpc = "returned" =>
        LET consensus == vresult.layer_results[LAYER_CONSENSUS]
        IN /\ (\A l, m \in ParallelLayers :
                  vresult.layer_results[l].confidence = vresult.layer_results[m].confidence)
                  => consensus.confidence = One
           /\ AllFiveFailedClosed =>
                  /\ consensus.confidence = One
                  /\ \E i \in 1..Len(consensus.issues) :
                        /\ consensus.issues[i].severity = "critical"
                        /\ consensus.issues[i].issue_type = "critical_consensus_failure"
                  /\ 100 * vresult.consensus_score = 5 * ScoreOne

\* the five layers failed closed, and the result has the score 0.05
C30_Witness ==
    /\ vpc = "returned"
    /\ AllFiveFailedClosed
    /\ vresult.consensus_score = 5000
    /\ vresult.layer_results[LAYER_CONSENSUS].confidence = One

\* the five layers reported 0.8 each
C30_AllAtNeutral ==
    /\ vpc = "returned"
    /\ \A l \in ParallelLayers : vresult.layer_results[l].confidence = 800
    /\ vresult.layer_results[LAYER_CONSENSUS].confidence = One
    /\ vresult.layer_results[LAYER_CONSENSUS].issues = <<>>

-----------------------------------------------------------------------------
(* The hallucination detection engine: properties *)

\* C7: in every result of detect_hallucination, is_hallucination is true if and
\* only if detected_hallucinations is not empty and confidence_score is strictly
\* below 0.3; a result with findings and a confidence_score of 0.3 or more has
\* is_hallucination false.
C7_FlaggedIffFindingsBelowThreshold ==
    dpc = "returned" =>
        (dresult.is_hallucination <=>
            /\ Len(dresult.detected_hallucinations) > 0
            /\ 10 * dresult.confidence_score < 3 * ScoreOne)

\* a result with findings and a confidence_score of at least 0.3, not flagged
C7_Witness ==
    /\ dpc = "returned"
    /\ Len(dresult.detected_hallucinations) > 0
    /\ 10 * dresult.confidence_score >= 3 * ScoreOne
    /\ ~dresult.is_hallucination

\* a result with findings and a confidence_score below 0.3, flagged
C7_FlaggedReached ==
    /\ dpc = "returned"
    /\ dresult.is_hallucination
    /\ dresult.confidence_score > 0

\* the consensus_score of validating the corrected code of the result again, with
\* the knowledge as it is
Revalidated ==
    validate_code_generation_result(graphiti_engine, rag_system, memory_bank,
        "corrected code validation", correction_framework(dcall.frameworks),
        dresult.corrected_code.code, AllOk).consensus_score

\* C8: whenever detect_hallucination returns a corrected_code that is not None,
\* validating that code again gives a consensus_score of at least 0.8, also when
\* no finding has a correct_usage or no replacement changes the text.
C8_CorrectedCodeRevalidates ==
    (dpc = "returned" /\ dresult.corrected_code.present) => 10 * Revalidated >= 8 * ScoreOne

\* what the code gives instead: a corrected_code that differs from the generated
\* code was validated by _generate_corrections with a consensus_score of at
\* least 0.8
C8_ChangedCodeWasValidated ==
    (/\ dpc = "returned"
     /\ dresult.corrected_code.present
     /\ dresult.corrected_code.code # dcall.generated_code) =>
        \E outcomes \in NestedOutcomes :
            10 * validate_code_generation_result(graphiti_engine, rag_system, memory_bank,
                     "corrected code validation", correction_framework(dcall.frameworks),
                     dresult.corrected_code.code, outcomes).consensus_score >= 8 * ScoreOne

MaxAddedFindings == 5

\* the finding of a match of a call against invalid_methods
InvalidMethodFinding ==
    Hallucination("non_existent_method", Usage("call", "Agent", "run_async"),
                  Usage("call", "Agent", "run"), 980, "PydanticAI")

\* the findings of the detection with k findings of invalid methods added
WithAddedFindings(k) == hallucinations \o [i \in 1..k |-> InvalidMethodFinding]

\* C10: with the consensus scores of the frameworks fixed, one more finding of a
\* match against invalid_methods (a non_existent_method finding) gives a
\* confidence_score that is strictly lower, or the same only at the floor 0.0.
C10_OneMoreFindingLowersConfidence ==
    dpc \in {"scored", "returned"} =>
        \A k \in 0..MaxAddedFindings :
            LET before == calculate_confidence_score(validation_results, WithAddedFindings(k))
                after == calculate_confidence_score(validation_results,
                                                    WithAddedFindings(k + 1))
            IN after < before \/ (after = before /\ before = 0)

\* a detection without findings and with a confidence_score above 0.8: the
\* added findings lower it step by step and reach both caps of the penalties
C10_Witness ==
    /\ dpc = "scored"
    /\ hallucinations = <<>>
    /\ 10 * confidence_score > 8 * ScoreOne
    /\ calculate_confidence_score(validation_results, WithAddedFindings(1))
          < confidence_score
    /\ calculate_confidence_score(validation_results, WithAddedFindings(1)) > 0

\* the classes that the code imports and that the rule table of one of the
\* requested frameworks lists in invalid_classes, each with that framework
ImportedInvalidClasses ==
    {cf \in {dcall.generated_code[i].b :
                i \in {j \in 1..Len(dcall.generated_code) :
                          dcall.generated_code[j].k = "import"}}
            \X (Range(dcall.frameworks) \cap DOMAIN framework_patterns) :
        cf[1] \in Range(framework_patterns[cf[2]].invalid_classes)}

\* C12: for code that imports a class named in the invalid_classes list of a
\* requested framework (from pydantic_ai import PydanticAgent, with PydanticAI),
\* detect_hallucination reports a finding of type non_existent_class whose
\* incorrect_usage is that class name and whose correct_usage is "Agent", and
\* the result has is_hallucination true and a confidence_score below 0.3.
C12_InvalidClassIsReported ==
    dpc = "returned" =>
        \A cf \in ImportedInvalidClasses :
            /\ \E i \in 1..Len(dresult.detected_hallucinations) :
                  LET h == dresult.detected_hallucinations[i]
                  IN /\ h.type = "non_existent_class"
                     /\ h.incorrect_usage = Usage("name", cf[1], "")
                     /\ cf[2] = "PydanticAI" => h.correct_usage = Usage("name", "Agent", "")
            /\ dresult.is_hallucination
            /\ 10 * dresult.confidence_score < 3 * ScoreOne

\* what the code gives instead: the import of PydanticAgent is reported as an
\* incorrect_import, to be replaced by the import of Agent, and a finding of
\* type non_existent_class only for a class that the code itself defines
C12_InvalidImportIsReported ==
    (/\ dpc = "returned"
     /\ <<"PydanticAgent", "PydanticAI">> \in ImportedInvalidClasses) =>
        /\ \E i \in 1..Len(dresult.detected_hallucinations) :
              LET h == dresult.detected_hallucinations[i]
              IN /\ h.type = "incorrect_import"
                 /\ h.correct_usage = Usage("import", "pydantic_ai", "Agent")
        /\ \A i \in 1..Len(dresult.detected_hallucinations) :
              dresult.detected_hallucinations[i].type # "non_existent_class"

\* the findings of the rule tables of the requested frameworks for the code of
\* the call
RuleTableFindings ==
    detect_framework_hallucinations(dcall.generated_code,
        detector_analyze_code_structure(dcall.generated_code), dcall.frameworks)

\* the method names of the invalid_methods table of a framework
InvalidMethodNames(framework) ==
    UNION {Range(framework_patterns[framework].invalid_methods[class]) :
              class \in DOMAIN framework_patterns[framework].invalid_methods}

\* the call sites of the code whose method name the invalid_methods table of a
\* requested framework lists, each with that framework
InvalidMethodCalls ==
    {cf \in {s \in Range(dcall.generated_code) : s.k = "call"}
            \X (Range(dcall.frameworks) \cap DOMAIN framework_patterns) :
        cf[1].b \in InvalidMethodNames(cf[2])}

\* the rule tables have a non_existent_method finding for a call site
RuleTableReports(stmt, framework) ==
    \E i \in 1..Len(RuleTableFindings) :
        /\ RuleTableFindings[i].type = "non_existent_method"
        /\ RuleTableFindings[i].incorrect_usage = Usage("call", stmt.a, stmt.b)
        /\ RuleTableFindings[i].framework = framework
        /\ \E j \in 1..Len(dresult.detected_hallucinations) :
              dresult.detected_hallucinations[j] = RuleTableFindings[i]

\* C13: for a call such as agent.add_validation_rule(...) whose method name is
\* listed in the invalid_methods table of a requested framework, the rule-table
\* lookup of detect_hallucination gives a non_existent_method finding for that
\* call site, whatever the name of the receiver variable; the corrected_code of
\* the result then either has that call replaced or is None.
C13_InvalidMethodIsReported ==
    dpc = "returned" =>
        \A cf \in InvalidMethodCalls :
            /\ RuleTableReports(cf[1], cf[2])
            /\ dresult.corrected_code.present =>
                  cf[1] \notin Range(dresult.corrected_code.code)

\* what the code gives instead: the rule tables report the call when its
\* receiver is written as the class that the invalid_methods table is keyed by
\* (Agent.run_async), and not when it is a variable (agent.add_validation_rule)
C13_ReportedForReceiverNamedAsClass ==
    dpc = "returned" =>
        \A cf \in InvalidMethodCalls :
            RuleTableReports(cf[1], cf[2])
                <=> /\ cf[1].a \in DOMAIN framework_patterns[cf[2]].invalid_methods
                    /\ cf[1].b \in Range(framework_patterns[cf[2]].invalid_methods[cf[1].a])

\* the requested frameworks of the call that have no rule table
UnknownFrameworks == Range(dcall.frameworks) \ DOMAIN framework_patterns

\* the "API not found in knowledge graph" findings of Step 5 for a framework:
\* one for each call site that _check_structural_existence does not find
NotFoundInKnowledgeGraph(framework) ==
    LET api_calls == detector_analyze_code_structure(dcall.generated_code).api_calls
    IN {Hallucination("non_existent_method",
                      Usage("call", api_calls[i].object, api_calls[i].method),
                      check_structural_existence(graphiti_engine, api_calls[i],
                                                 framework).suggestion,
                      950, framework) :
          i \in {j \in 1..Len(api_calls) :
                   ~check_structural_existence(graphiti_engine, api_calls[j],
                                               framework).exists}}

\* the findings of the result for a framework
FindingsFor(framework) ==
    {h \in Range(dresult.detected_hallucinations) : h.framework = framework}

\* C16: for a requested framework without a rule table, detect_hallucination
\* skips the rule-table checks and the knowledge-graph existence checks: its
\* result has no rule-table finding and no "API not found in knowledge graph"
\* finding for that framework.
C16_UnknownFrameworkSkipsStructuralChecks ==
    dpc = "returned" =>
        \A framework \in UnknownFrameworks :
            /\ FindingsFor(framework) \cap Range(RuleTableFindings) = {}
            /\ FindingsFor(framework) \cap NotFoundInKnowledgeGraph(framework) = {}

\* what the code gives instead: only the rule tables are skipped; every call
\* site that the knowledge graph does not hold for the framework is reported,
\* and the documentation check and the validation of the framework run as well
C16_UnknownFrameworkSkipsRuleTables ==
    dpc = "returned" =>
        \A framework \in UnknownFrameworks :
            /\ FindingsFor(framework) \cap Range(RuleTableFindings) = {}
            /\ NotFoundInKnowledgeGraph(framework) \subseteq FindingsFor(framework)
            /\ framework \in DOMAIN dresult.validation_breakdown
            /\ \A i \in 1..Len(detector_analyze_code_structure(dcall.generated_code).api_calls) :
                 LET api_call == detector_analyze_code_structure(dcall.generated_code).api_calls[i]
                     rag_validation == validate_api_usage(rag_system, graphiti_engine,
                                                          api_call, framework)
                 IN (~rag_validation.is_valid \/ rag_validation.confidence < 500) =>
                        \E h \in FindingsFor(framework) :
                            /\ h.incorrect_usage = Usage("call", api_call.object, api_call.method)
                            /\ h.confidence = One - rag_validation.confidence

\* detect_hallucination is at Step 4, where it asks the Knowledge Store for the
\* failed patterns of its first framework
AtFailedPatternQuery ==
    /\ dpc = "validating"
    /\ dindex > Len(dcall.frameworks)
    /\ dcall.frameworks # <<>>

\* C19: a detect_hallucination call whose query_failed_patterns raises does
\* not end with that exception: from the query on it goes on to a score of at
\* least 0 and to findings that hold the rule-table findings.
C19_FailedPatternQueryIsSurvived ==
    [][AtFailedPatternQuery =>
          /\ dpc' = "scored"
          /\ confidence_score' >= 0
          /\ Range(RuleTableFindings) \subseteq Range(hallucinations')]_vars

\* what the code gives instead: a call that goes on from the query has the
\* rule-table findings and a score of at least 0, and a call whose query raises
\* ends with the exception, with no result and its counter as it was
C19_FailedPatternQueryEndsTheCall ==
    [][AtFailedPatternQuery =>
          \/ /\ dpc' = "scored"
             /\ confidence_score' >= 0
             /\ Range(RuleTableFindings) \subseteq Range(hallucinations')
          \/ /\ dpc' = "raised"
             /\ dresult' = dresult
             /\ detection_count' = detection_count]_vars

\* the steps in which a validate_code_generation call returns: the call of a
\* task, a validation of Step 2 of detect_hallucination, the validation of the
\* corrected code
ValidationsReturning ==
    (IF vpc = "consensus" /\ vpc' = "returned" THEN 1 ELSE 0)
    + (IF dpc = "validating" /\ dindex' = dindex + 1 THEN 1 ELSE 0)
    + (IF dpc = "scored" /\ dpc' = "returned" /\ CorrectionValidated THEN 1 ELSE 0)

\* the steps in which a detect_hallucination call returns
DetectionsReturning == IF dpc = "scored" /\ dpc' = "returned" THEN 1 ELSE 0

\* the steps in which a call of a task raises
CallRaising ==
    \/ vpc # "raised" /\ vpc' = "raised"
    \/ dpc # "raised" /\ dpc' = "raised"

C20_BothTasksReturned ==
    /\ vpc = "returned"
    /\ dpc = "returned"
    /\ start_time.validation < start_time.detection
    /\ validation_count >= 2
    /\ detection_count = 1
    /\ total_validation_time > 0

\* the findings in the order of the Correction Generator: by confidence,
\* highest first, and findings of one confidence in the order they were found
ByDescendingConfidence(hs) ==
    LET Place(i) ==
            1 + Cardinality({j \in 1..Len(hs) :
                    \/ hs[j].confidence > hs[i].confidence
                    \/ hs[j].confidence = hs[i].confidence /\ j < i})
    IN [p \in 1..Len(hs) |-> hs[CHOOSE i \in 1..Len(hs) : Place(i) = p]]

\* the text after each finding of hs was processed in turn, from the text code
TextAfter(code, hs) ==
    LET T[i \in 0..Len(hs)] ==
            IF i = 0 THEN code
            ELSE IF hs[i].correct_usage # NoUsage
                 THEN Replace(T[i - 1], hs[i].incorrect_usage, hs[i].correct_usage)
                 ELSE T[i - 1]
    IN T

\* suggestions are the suggestions for exactly the findings of hs that have a
\* correct_usage and whose replacement changed the text, in the order of hs
SuggestionsForChanges(suggestions, code, hs) ==
    LET T == TextAfter(code, hs)
        changing == {i \in 1..Len(hs) : hs[i].correct_usage # NoUsage /\ T[i] # T[i - 1]}
        Nth(k) == CHOOSE i \in changing : Cardinality({j \in changing : j < i}) = k - 1
    IN /\ Len(suggestions) = Cardinality(changing)
       /\ \A k \in 1..Len(suggestions) :
             /\ suggestions[k].original_code = hs[Nth(k)].incorrect_usage
             /\ suggestions[k].corrected_code = hs[Nth(k)].correct_usage
             /\ suggestions[k].confidence = hs[Nth(k)].confidence
             /\ suggestions[k].corrected_code # suggestions[k].original_code

\* the step in which a flagged detection returns
FlaggedDetectionReturns ==
    /\ dpc = "scored"
    /\ dpc' = "returned"
    /\ dresult'.is_hallucination

\* C24: the Correction Generator processes the findings in descending order of
\* confidence; it records a CorrectionSuggestion for exactly the findings that
\* have a correct_usage and whose replacement changed the text, so the
\* corrected snippet of every suggestion differs from its original snippet; and
\* when the validation of the corrected text scores below 0.8 the
\* corrected_code is None while all the recorded suggestions are returned.
C24_CorrectionGenerator ==
    [][FlaggedDetectionReturns =>
          LET sorted == ByDescendingConfidence(hallucinations)
              text == TextAfter(dcall.generated_code, sorted)[Len(sorted)]
          IN /\ SuggestionsForChanges(dresult'.correction_suggestions,
                                      dcall.generated_code, sorted)
             /\ text = dcall.generated_code =>
                   /\ dresult'.corrected_code = [present |-> TRUE, code |-> text]
                   /\ validation_count' = validation_count
             /\ text # dcall.generated_code =>
                   /\ validation_count' = validation_count + 1
                   /\ \E outcomes \in NestedOutcomes :
                         LET score == validate_code_generation_result(graphiti_engine,
                                          rag_system, memory_bank,
                                          "corrected code validation",
                                          correction_framework(dcall.frameworks),
                                          text, outcomes).consensus_score
                         IN dresult'.corrected_code =
                                IF 10 * score < 8 * ScoreOne
                                THEN NoCode
                                ELSE [present |-> TRUE, code |-> text]]_vars

\* a flagged result whose corrected text validated below 0.8: no
\* corrected_code, and the suggestions of the replacements returned
C24_Witness ==
    /\ dpc = "returned"
    /\ dresult.is_hallucination
    /\ ~dresult.corrected_code.present
    /\ dresult.correction_suggestions # <<>>
    /\ Len(dresult.correction_suggestions) < Len(hallucinations)

\* two suggestions of different confidence
C24_TwoSuggestions ==
    /\ dpc = "returned"
    /\ Len(dresult.correction_suggestions) >= 2
    /\ dresult.correction_suggestions[1].confidence
           > dresult.correction_suggestions[2].confidence

\* the findings were not found in the order of their confidence
C24_Reordered ==
    /\ dpc = "returned"
    /\ dresult.correction_suggestions # <<>>
    /\ \E i, j \in 1..Len(hallucinations) :
          i < j /\ hallucinations[i].confidence < hallucinations[j].confidence

\* a corrected text that validated with 0.8 or more
C24_CorrectedReturned ==
    /\ dpc = "returned"
    /\ dresult.corrected_code.present
    /\ dresult.corrected_code.code # dcall.generated_code

-----------------------------------------------------------------------------
(* The patterns of the Knowledge Store: properties *)

\* the places of the patterns with the given id
PatternsWithId(engine, pattern_id) ==
    {j \in 1..Len(engine.patterns) : engine.patterns[j].name = pattern_id}

\* the step in which the store runs the statement i, of an update_pattern_usage
\* call
UpdateRuns(i) ==
    /\ i \in 1..Len(statements)
    /\ statements[i].state = "sent"
    /\ statements'[i].state = "returned"

\* C25: every update_pattern_usage call on a stored pattern (success_rate in
\* [0, 1]) increases its usage_count by exactly one and sets its success_rate
\* to (old_rate * count + outcome) / (count + 1), with outcome 1 for a success
\* and 0 for a failure and count the usage_count before the call; the
\* success_rate stays in [0, 1].
C25_UsageUpdateIsRunningMean ==
    [][\A i \in 1..MaxStatements :
          UpdateRuns(i) =>
              \A j \in PatternsWithId(graphiti_engine, statements[i].pattern_id) :
                  LET old == graphiti_engine.patterns[j]
                      new == graphiti_engine'.patterns[j]
                      outcome == IF statements[i].success THEN One ELSE 0
                  IN /\ new.usage_count = old.usage_count + 1
                     /\ new.success_rate =
                            (old.success_rate * old.usage_count + outcome)
                                \div (old.usage_count + 1)
                     /\ new.success_rate \in 0..One]_vars

\* what the code gives on every store: the usage_count grows by one and the
\* success_rate stays in [0, 1]; the count of the formula is the usage_count
\* before the call or the one after it
C25_UsageCountedAndRateInRange ==
    [][\A i \in 1..MaxStatements :
          UpdateRuns(i) =>
              \A j \in PatternsWithId(graphiti_engine, statements[i].pattern_id) :
                  LET old == graphiti_engine.patterns[j]
                      new == graphiti_engine'.patterns[j]
                      outcome == IF statements[i].success THEN One ELSE 0
                  IN /\ new.usage_count = old.usage_count + 1
                     /\ new.success_rate \in 0..One
                     /\ \E count \in {old.usage_count, new.usage_count} :
                           new.success_rate =
                               (old.success_rate * count + outcome) \div (count + 1)]_vars

\* the first use of a pattern stored with 0.9 was a success, and its
\* success_rate is 0.95: the mean of the stored rate and the outcome
C25_FirstUseKeepsTheStoredRate ==
    /\ Len(statements) = 2
    /\ statements[1].query = "store_pattern"
    /\ statements[1].success_rate = 900
    /\ statements[2].state = "returned"
    /\ statements[2].success
    /\ statements[2].record = [present |-> TRUE, value |-> 950]


\* the update_pattern_usage calls on the given pattern that have returned its
\* new_success_rate (a call made before the pattern was stored returns None)
ReturnedUpdates(pattern_id) ==
    {i \in 1..Len(statements) :
        /\ statements[i].query = "update_pattern_usage"
        /\ statements[i].pattern_id = pattern_id
        /\ statements[i].state = "returned"
        /\ statements[i].record.present}

\* the pattern after the updates of the calls at the given places were applied
\* one after the other to the pattern p, in the given order
AppliedInOrder(p, order) ==
    LET F[k \in 0..Len(order)] ==
            IF k = 0 THEN p
            ELSE SetPatternUsage(F[k - 1], statements[order[k]].success,
                                 graphiti_engine.set_items_in_order)
    IN F[Len(order)]

\* the sequential orders of the calls at the given places
Orders(places) ==
    {order \in [1..Cardinality(places) -> places] :
        \A k, l \in 1..Cardinality(places) : k # l => order[k] # order[l]}

\* C26: the update of a pattern's usage is an atomic increment-and-recompute:
\* after N update_pattern_usage calls on one pattern, however they overlap,
\* its usage_count is the initial count plus N and its success_rate is what the
\* N updates give when applied in some sequential order.
C26_ConcurrentUpdatesAreSerial ==
    \A s \in 1..Len(statements) :
        statements[s].query = "store_pattern" =>
            LET stored == Pattern(statements[s].pattern_id, "PydanticAI", "success",
                                  StoredTemplate, statements[s].success_rate, 0, 0)
                updates == ReturnedUpdates(statements[s].pattern_id)
            IN \A j \in PatternsWithId(graphiti_engine, statements[s].pattern_id) :
                  /\ graphiti_engine.patterns[j].usage_count = Cardinality(updates)
                  /\ \E order \in Orders(updates) :
                        graphiti_engine.patterns[j].success_rate
                            = AppliedInOrder(stored, order).success_rate

\* three calls, two successes and a failure, were with the store at one time
\* and ran in another order than they were made
C26_Witness ==
    /\ Len(statements) = 4
    /\ statements[1].query = "store_pattern"
    /\ \A i \in 2..4 : /\ statements[i].pattern_id = "Stored"
                       /\ statements[i].state = "returned"
    /\ statements[2].success /\ ~statements[3].success /\ statements[4].success
    /\ statements[4].record.value < statements[2].record.value
    /\ statements[3].record.value = graphiti_engine.patterns[1].success_rate


-----------------------------------------------------------------------------
(* The hallucination detection engine: the Clean and the Flagged state *)

\* the step in which a detection returns a result that is not flagged
CleanDetectionReturns ==
    /\ dpc = "scored"
    /\ dpc' = "returned"
    /\ ~dresult'.is_hallucination

\* C29: corrections are generated only for a flagged result: whenever the
\* result of detect_hallucination has is_hallucination = False (no finding, or
\* findings with a confidence_score of 0.3 or more), its corrected_code is None
\* and its correction_suggestions are empty, and the corrected code was not
\* validated: the validation engine and its collaborators saw no call.
C29_CleanResultHasNoCorrection ==
    [][CleanDetectionReturns =>
          /\ dresult'.corrected_code = NoCode
          /\ dresult'.correction_suggestions = <<>>
          /\ validation_count' = validation_count
          /\ returned_validations' = returned_validations
          /\ graphiti_engine' = graphiti_engine
          /\ rag_system' = rag_system]_vars

\* a result with findings that is not flagged, without corrected_code and
\* suggestions; only the validations of Step 2 were made
C29_Witness ==
    /\ dpc = "returned"
    /\ ~dresult.is_hallucination
    /\ dresult.detected_hallucinations # <<>>
    /\ dresult.correction_suggestions = <<>>
    /\ ~dresult.corrected_code.present
    /\ validation_count = Len(dcall.frameworks)

\* a result without findings, not flagged
C29_NoFinding ==
    /\ dpc = "returned"
    /\ dresult.detected_hallucinations = <<>>
    /\ dcall.generated_code # <<>>
    /\ ~dresult.corrected_code.present


=============================================================================
